---- MODULE Spec2Model ----
(***************************************************************************)
(* Drivers, trucks and date-scoped driver-truck assignments kept in three  *)
(* in-memory repositories, with the assignment service's validation        *)
(* (existence, license hierarchy, double-booking) in front of the          *)
(* assignment repository.  Each service call is one atomic step, and the   *)
(* requests are served one at a time: a request is taken once the response *)
(* to the one before it has been sent.                                     *)
(***************************************************************************)
EXTENDS Integers, Sequences, FiniteSets, TLC

VARIABLES
    drivers,             \* DriverRepository._drivers: dict in insertion order
    driver_next_id,      \* DriverRepository._next_id
    trucks,              \* TruckRepository._trucks
    truck_next_id,       \* TruckRepository._next_id
    assignments,         \* AssignmentRepository._assignments
    assignment_next_id,  \* AssignmentRepository._next_id
    last,                \* the call being answered: operation, arguments,
                         \* outcome, and the called store as it was before
                         \* the call; NoCall once the response has been sent
    lic_self,            \* receiver of the last LicenseType method call
    lic_required,        \* argument of the last LicenseType method call
    history,             \* per repository: how many creates succeeded, and
                         \* which ids were deleted
    fresh,               \* the drivers and trucks created and not updated or
                         \* deleted since, each with the entity it was created from
    threads,             \* per worker thread of the threadpool: where it is in
                         \* create_assignment, its Assignment, and its outcome
    race                 \* how the worker threads have interleaved so far

vars == <<drivers, driver_next_id, trucks, truck_next_id, assignments,
          assignment_next_id, last, lic_self, lic_required, history, fresh,
          threads, race>>

store_vars == <<drivers, driver_next_id, trucks, truck_next_id, assignments,
                assignment_next_id>>

-----------------------------------------------------------------------------
(* Bounds of the model. *)

\* creates per repository (so ids range over 1..Max)
MaxDrivers == 2
MaxTrucks == 2
MaxAssignments == 2

DriverIds == 1..MaxDrivers
TruckIds == 1..MaxTrucks
AssignmentIds == 1..MaxAssignments

\* worker threads of the threadpool that runs the routes, one request each
MaxThreads == 2
ThreadIds == 1..MaxThreads

\* the calendar dates requests carry, as ISO-8601 text
Dates == {"2025-11-10", "2025-11-11"}

\* names, plates and license categories the driver and truck requests carry;
\* a str is the sequence of its characters
DriverNames == {<<"J", "o", "e">>}
TruckPlates == {<<"A", "B", " ", "1">>}
LicenseInputs == {"B", "D"}

\* the same with an empty text, a blank one and one that is not normalized
RawDriverNames == DriverNames \cup {<<>>, <<" ", " ">>, <<" ", "J", "o", "e", " ">>}
RawTruckPlates == TruckPlates \cup {<<>>, <<" ", " ">>, <<" ", "a", "b", " ", " ", "1", " ">>}

-----------------------------------------------------------------------------
(* models/license_type.py *)

LicenseType == {"A", "B", "C", "D", "E"}

get_license_hierarchy == [A |-> 1, B |-> 2, C |-> 3, D |-> 4, E |-> 5]

\* the comparison made strict
can_operate_strict(self, required_license) ==
    LET hierarchy == get_license_hierarchy
    IN  hierarchy[self] > hierarchy[required_license]

can_operate(self, required_license) ==
    LET hierarchy == get_license_hierarchy
    IN  hierarchy[self] >= hierarchy[required_license]

\* the receiver's own level left out
get_compatible_licenses_below(self) ==
    LET hierarchy == get_license_hierarchy
        current_level == hierarchy[self]
    IN  {license_type \in DOMAIN hierarchy : hierarchy[license_type] < current_level}

get_compatible_licenses(self) ==
    LET hierarchy == get_license_hierarchy
        current_level == hierarchy[self]
    IN  {license_type \in DOMAIN hierarchy : hierarchy[license_type] <= current_level}

-----------------------------------------------------------------------------
(* Python dict, as the repositories use it: a sequence of <<key, value>>   *)
(* pairs in insertion order.  Optional values are sequences of length 0    *)
(* (None) or 1.                                                            *)

None == <<>>

dict_keys(d) == {d[i][1] : i \in 1..Len(d)}

dict_values(d) == [i \in 1..Len(d) |-> d[i][2]]

\* d.get(k)
dict_get(d, k) ==
    IF k \in dict_keys(d)
    THEN <<d[CHOOSE i \in 1..Len(d) : d[i][1] = k][2]>>
    ELSE None

\* the key taken out and put back at the end
dict_set_reinsert(d, k, v) == Append(SelectSeq(d, LAMBDA e : e[1] # k), <<k, v>>)

\* d[k] = v : in place for a key already present, appended otherwise
dict_set(d, k, v) ==
    IF k \in dict_keys(d)
    THEN [i \in 1..Len(d) |-> IF d[i][1] = k THEN <<k, v>> ELSE d[i]]
    ELSE Append(d, <<k, v>>)

\* del d[k]
dict_del(d, k) == SelectSeq(d, LAMBDA e : e[1] # k)

\* the first element of a sequence, or None when it is empty: what a loop
\* that returns on its first hit gives
first_or_none(hits) == IF hits = <<>> THEN None ELSE <<hits[1]>>

-----------------------------------------------------------------------------
(* Python str methods and re.sub, on sequences of characters. *)

Whitespace == {" "}

\* v.strip()
strip(v) ==
    LET kept == {i \in 1..Len(v) : v[i] \notin Whitespace}
        lo == CHOOSE i \in kept : \A j \in kept : i <= j
        hi == CHOOSE i \in kept : \A j \in kept : i >= j
    IN  IF kept = {} THEN <<>> ELSE SubSeq(v, lo, hi)

\* v.upper(), for the letters the requests carry
upper(v) ==
    [i \in 1..Len(v) |->
        CASE v[i] = "a" -> "A"
          [] v[i] = "b" -> "B"
          [] v[i] = "o" -> "O"
          [] v[i] = "e" -> "E"
          [] OTHER -> v[i]]

\* re.sub(r'\s+', ' ', v): every run of whitespace becomes one space
collapse_whitespace(v) ==
    LET out[i \in 0..Len(v)] ==
            IF i = 0 THEN <<>>
            ELSE IF v[i] \notin Whitespace THEN Append(out[i - 1], v[i])
            ELSE IF i = 1 \/ v[i - 1] \notin Whitespace THEN Append(out[i - 1], " ")
            ELSE out[i - 1]
    IN  out[Len(v)]

-----------------------------------------------------------------------------
(* exceptions/__init__.py *)

ApplicationException(type, message, status_code) ==
    [type |-> type, message |-> message, status_code |-> status_code]

ResourceNotFoundException(resource_type, resource_id) ==
    ApplicationException("ResourceNotFoundException",
        <<resource_type, " with ID ", ToString(resource_id), " not found">>, 404)

ValidationException(message) ==
    ApplicationException("ValidationException", message, 422)

ConflictException(message) ==
    ApplicationException("ConflictException", message, 409)

\* Raised by the framework for a request body its schema rejects, and by
\* pydantic for a model whose validator raises ValueError; neither is an
\* ApplicationException.
RequestValidationError(field) ==
    [type |-> "RequestValidationError", message |-> <<"body", field>>]

PydanticValidationError(message) ==
    [type |-> "ValidationError", message |-> <<message>>]

-----------------------------------------------------------------------------
(* models/driver.py, models/truck.py, models/assignment.py *)

Driver(id, name, license_type) ==
    [id |-> id, name |-> name, license_type |-> license_type]

Truck(id, plate, minimum_license_type) ==
    [id |-> id, plate |-> plate, minimum_license_type |-> minimum_license_type]

NameMaxLength == 100
PlateMaxLength == 20

\* Field(..., min_length=1, max_length=...), of the models and of the schemas
length_ok(v, max_length) == Len(v) >= 1 /\ Len(v) <= max_length

\* Driver.validate_name: the normalized name, or None for ValueError
validate_name(v) ==
    LET normalized == strip(v)
    IN  IF normalized = <<>> THEN None ELSE <<normalized>>

\* Truck.validate_plate: the normalized plate, or None for ValueError
validate_plate(v) ==
    LET normalized == upper(strip(v))
    IN  IF normalized = <<>> THEN None ELSE <<collapse_whitespace(normalized)>>

Assignment(id, driver_id, truck_id, assignment_date) ==
    [id |-> id, driver_id |-> driver_id, truck_id |-> truck_id,
     assignment_date |-> assignment_date]

-----------------------------------------------------------------------------
(* What a repository or service call leaves behind: the exception or the   *)
(* return value, and the called repository's dict and id counter.          *)

Outcome(raised, returned, store, next_id) ==
    [raised |-> raised, returned |-> returned, store |-> store, next_id |-> next_id]

-----------------------------------------------------------------------------
(* repositories/driver_repository.py *)

\* the id taken from the number of stored drivers, not from the counter
DriverRepository_create_from_len(driver) ==
    LET stored == Driver(Len(drivers) + 1, driver.name, driver.license_type)
    IN  Outcome(None, <<stored>>,
                dict_set(drivers, Len(drivers) + 1, stored), driver_next_id + 1)

DriverRepository_create(driver) ==
    LET stored == Driver(driver_next_id, driver.name, driver.license_type)
    IN  Outcome(None, <<stored>>,
                dict_set(drivers, driver_next_id, stored), driver_next_id + 1)

\* a driver missed once a driver created after it has been deleted
DriverRepository_get_by_id_stale(driver_id) ==
    IF \E deleted \in history.deleted.driver : deleted > driver_id
    THEN None
    ELSE dict_get(drivers, driver_id)

DriverRepository_get_by_id(driver_id) == dict_get(drivers, driver_id)

DriverRepository_get_all == dict_values(drivers)

\* an id that is not stored is inserted
DriverRepository_update_upsert(driver_id, driver) ==
    LET stored == Driver(driver_id, driver.name, driver.license_type)
    IN  Outcome(None, <<stored>>,
                dict_set(drivers, driver_id, stored), driver_next_id)

DriverRepository_update(driver_id, driver) ==
    IF driver_id \notin dict_keys(drivers)
    THEN Outcome(None, None, drivers, driver_next_id)
    ELSE LET stored == Driver(driver_id, driver.name, driver.license_type)
         IN  Outcome(None, <<stored>>,
                     dict_set(drivers, driver_id, stored), driver_next_id)

\* the counter taken back when a driver is deleted
DriverRepository_delete_counter_back(driver_id) ==
    IF driver_id \in dict_keys(drivers)
    THEN Outcome(None, <<TRUE>>, dict_del(drivers, driver_id), driver_next_id - 1)
    ELSE Outcome(None, <<FALSE>>, drivers, driver_next_id)

DriverRepository_delete(driver_id) ==
    IF driver_id \in dict_keys(drivers)
    THEN Outcome(None, <<TRUE>>, dict_del(drivers, driver_id), driver_next_id)
    ELSE Outcome(None, <<FALSE>>, drivers, driver_next_id)

DriverRepository_exists(driver_id) == driver_id \in dict_keys(drivers)

-----------------------------------------------------------------------------
(* repositories/truck_repository.py *)

TruckRepository_create(truck) ==
    LET stored == Truck(truck_next_id, truck.plate, truck.minimum_license_type)
    IN  Outcome(None, <<stored>>,
                dict_set(trucks, truck_next_id, stored), truck_next_id + 1)

\* the first stored truck, whatever the id
TruckRepository_get_by_id_first(truck_id) == first_or_none(dict_values(trucks))

TruckRepository_get_by_id(truck_id) == dict_get(trucks, truck_id)

TruckRepository_get_all == dict_values(trucks)

TruckRepository_update(truck_id, truck) ==
    IF truck_id \notin dict_keys(trucks)
    THEN Outcome(None, None, trucks, truck_next_id)
    ELSE LET stored == Truck(truck_id, truck.plate, truck.minimum_license_type)
         IN  Outcome(None, <<stored>>,
                     dict_set(trucks, truck_id, stored), truck_next_id)

TruckRepository_delete(truck_id) ==
    IF truck_id \in dict_keys(trucks)
    THEN Outcome(None, <<TRUE>>, dict_del(trucks, truck_id), truck_next_id)
    ELSE Outcome(None, <<FALSE>>, trucks, truck_next_id)

TruckRepository_exists(truck_id) == truck_id \in dict_keys(trucks)

-----------------------------------------------------------------------------
(* repositories/assignment_repository.py *)

\* the id taken after the counter was advanced
AssignmentRepository_create_late_id(assignment) ==
    LET stored == Assignment(assignment_next_id + 1, assignment.driver_id,
                             assignment.truck_id, assignment.assignment_date)
    IN  Outcome(None, <<stored>>,
                dict_set(assignments, assignment_next_id, stored),
                assignment_next_id + 1)

AssignmentRepository_create(assignment) ==
    LET stored == Assignment(assignment_next_id, assignment.driver_id,
                             assignment.truck_id, assignment.assignment_date)
    IN  Outcome(None, <<stored>>,
                dict_set(assignments, assignment_next_id, stored),
                assignment_next_id + 1)

AssignmentRepository_get_by_id(assignment_id) == dict_get(assignments, assignment_id)

AssignmentRepository_get_all == dict_values(assignments)

\* the replaced assignment returned but not stored
AssignmentRepository_update_unwritten(assignment_id, assignment) ==
    IF assignment_id \notin dict_keys(assignments)
    THEN Outcome(None, None, assignments, assignment_next_id)
    ELSE Outcome(None, <<Assignment(assignment_id, assignment.driver_id,
                                   assignment.truck_id, assignment.assignment_date)>>,
                 assignments, assignment_next_id)

AssignmentRepository_update(assignment_id, assignment) ==
    IF assignment_id \notin dict_keys(assignments)
    THEN Outcome(None, None, assignments, assignment_next_id)
    ELSE LET stored == Assignment(assignment_id, assignment.driver_id,
                                  assignment.truck_id, assignment.assignment_date)
         IN  Outcome(None, <<stored>>,
                     dict_set(assignments, assignment_id, stored),
                     assignment_next_id)

\* True returned for a stored id, the entry kept
AssignmentRepository_delete_kept(assignment_id) ==
    IF assignment_id \in dict_keys(assignments)
    THEN Outcome(None, <<TRUE>>, assignments, assignment_next_id)
    ELSE Outcome(None, <<FALSE>>, assignments, assignment_next_id)

AssignmentRepository_delete(assignment_id) ==
    IF assignment_id \in dict_keys(assignments)
    THEN Outcome(None, <<TRUE>>, dict_del(assignments, assignment_id),
                 assignment_next_id)
    ELSE Outcome(None, <<FALSE>>, assignments, assignment_next_id)

\* the date left out of the match
find_by_driver_any_date(driver_id, assignment_date) ==
    first_or_none(SelectSeq(dict_values(assignments),
        LAMBDA assignment : assignment.driver_id = driver_id))

\* the first stored assignment of the driver on the date, in dict order
find_by_driver_and_date(driver_id, assignment_date) ==
    first_or_none(SelectSeq(dict_values(assignments),
        LAMBDA assignment : /\ assignment.driver_id = driver_id
                            /\ assignment.assignment_date = assignment_date))

\* the truck id matched against the driver field
find_by_truck_and_date_driver_field(truck_id, assignment_date) ==
    first_or_none(SelectSeq(dict_values(assignments),
        LAMBDA assignment : /\ assignment.driver_id = truck_id
                            /\ assignment.assignment_date = assignment_date))

\* the first stored assignment of the truck on the date, in dict order
find_by_truck_and_date(truck_id, assignment_date) ==
    first_or_none(SelectSeq(dict_values(assignments),
        LAMBDA assignment : /\ assignment.truck_id = truck_id
                            /\ assignment.assignment_date = assignment_date))

\* the date not compared
find_by_date_unfiltered(assignment_date) == dict_values(assignments)

find_by_date(assignment_date) ==
    SelectSeq(dict_values(assignments),
        LAMBDA assignment : assignment.assignment_date = assignment_date)

-----------------------------------------------------------------------------
(* services/driver_service.py *)

create_driver(driver) == DriverRepository_create(driver)

get_driver(driver_id) ==
    LET driver == DriverRepository_get_by_id(driver_id)
    IN  IF driver = None
        THEN Outcome(<<ResourceNotFoundException("Driver", driver_id)>>, None,
                     drivers, driver_next_id)
        ELSE Outcome(None, driver, drivers, driver_next_id)

get_all_drivers == Outcome(None, <<DriverRepository_get_all>>, drivers, driver_next_id)

update_driver(driver_id, driver) ==
    LET updated == DriverRepository_update(driver_id, driver)
    IN  IF updated.returned = None
        THEN Outcome(<<ResourceNotFoundException("Driver", driver_id)>>, None,
                     updated.store, updated.next_id)
        ELSE updated

delete_driver(driver_id) ==
    LET deleted == DriverRepository_delete(driver_id)
    IN  IF deleted.returned = <<FALSE>>
        THEN Outcome(<<ResourceNotFoundException("Driver", driver_id)>>, None,
                     deleted.store, deleted.next_id)
        ELSE Outcome(None, None, deleted.store, deleted.next_id)

-----------------------------------------------------------------------------
(* services/truck_service.py *)

create_truck(truck) == TruckRepository_create(truck)

get_truck(truck_id) ==
    LET truck == TruckRepository_get_by_id(truck_id)
    IN  IF truck = None
        THEN Outcome(<<ResourceNotFoundException("Truck", truck_id)>>, None,
                     trucks, truck_next_id)
        ELSE Outcome(None, truck, trucks, truck_next_id)

get_all_trucks == Outcome(None, <<TruckRepository_get_all>>, trucks, truck_next_id)

update_truck(truck_id, truck) ==
    LET updated == TruckRepository_update(truck_id, truck)
    IN  IF updated.returned = None
        THEN Outcome(<<ResourceNotFoundException("Truck", truck_id)>>, None,
                     updated.store, updated.next_id)
        ELSE updated

delete_truck(truck_id) ==
    LET deleted == TruckRepository_delete(truck_id)
    IN  IF deleted.returned = <<FALSE>>
        THEN Outcome(<<ResourceNotFoundException("Truck", truck_id)>>, None,
                     deleted.store, deleted.next_id)
        ELSE Outcome(None, None, deleted.store, deleted.next_id)

-----------------------------------------------------------------------------
(* services/assignment_service.py.  The three private checks give the      *)
(* exception they raise, or None when they return normally.                *)

\* receiver and argument of can_operate exchanged
_validate_license_compatibility_swapped(driver_license, required_license) ==
    IF ~can_operate(required_license, driver_license)
    THEN <<ValidationException(
            <<"Driver with license type ", driver_license, " cannot operate ",
              "a truck requiring license type ", required_license, ". ",
              "Driver needs at least a ", required_license, " license.">>)>>
    ELSE None

_validate_license_compatibility(driver_license, required_license) ==
    IF ~can_operate(driver_license, required_license)
    THEN <<ValidationException(
            <<"Driver with license type ", driver_license, " cannot operate ",
              "a truck requiring license type ", required_license, ". ",
              "Driver needs at least a ", required_license, " license.">>)>>
    ELSE None

\* the message names the existing assignment's id, not its truck
_check_driver_availability_names_id(driver_id, assignment_date, exclude_assignment_id) ==
    LET existing == find_by_driver_and_date(driver_id, assignment_date)
    IN  IF existing # None /\ <<existing[1].id>> # exclude_assignment_id
        THEN <<ConflictException(
                <<"Driver ", ToString(driver_id), " is already assigned to truck ",
                  ToString(existing[1].id), " on ", assignment_date>>)>>
        ELSE None

\* the excluded id never looked at
_check_driver_availability_no_exclude(driver_id, assignment_date, exclude_assignment_id) ==
    LET existing == find_by_driver_and_date(driver_id, assignment_date)
    IN  IF existing # None
        THEN <<ConflictException(
                <<"Driver ", ToString(driver_id), " is already assigned to truck ",
                  ToString(existing[1].truck_id), " on ", assignment_date>>)>>
        ELSE None

\* exclude_assignment_id is None (the default) or <<id>>
_check_driver_availability(driver_id, assignment_date, exclude_assignment_id) ==
    LET existing == find_by_driver_and_date(driver_id, assignment_date)
    IN  IF existing # None /\ <<existing[1].id>> # exclude_assignment_id
        THEN <<ConflictException(
                <<"Driver ", ToString(driver_id), " is already assigned to truck ",
                  ToString(existing[1].truck_id), " on ", assignment_date>>)>>
        ELSE None

\* the comparison with the excluded id inverted
_check_truck_availability_inverted(truck_id, assignment_date, exclude_assignment_id) ==
    LET existing == find_by_truck_and_date(truck_id, assignment_date)
    IN  IF existing # None /\ <<existing[1].id>> = exclude_assignment_id
        THEN <<ConflictException(
                <<"Truck ", ToString(truck_id), " is already assigned to driver ",
                  ToString(existing[1].driver_id), " on ", assignment_date>>)>>
        ELSE None

_check_truck_availability(truck_id, assignment_date, exclude_assignment_id) ==
    LET existing == find_by_truck_and_date(truck_id, assignment_date)
    IN  IF existing # None /\ <<existing[1].id>> # exclude_assignment_id
        THEN <<ConflictException(
                <<"Truck ", ToString(truck_id), " is already assigned to driver ",
                  ToString(existing[1].driver_id), " on ", assignment_date>>)>>
        ELSE None

\* the raise comes after an id was taken from the counter
AssignmentRaise_id_consumed(exc) ==
    Outcome(exc, None, assignments, assignment_next_id + 1)

\* a raise inside the assignment service: the repository is left as it is
AssignmentRaise(exc) == Outcome(exc, None, assignments, assignment_next_id)

\* the truck looked up before the driver
create_assignment_truck_first(assignment) ==
    LET driver == DriverRepository_get_by_id(assignment.driver_id)
        truck == TruckRepository_get_by_id(assignment.truck_id)
        license == _validate_license_compatibility(driver[1].license_type,
                                                   truck[1].minimum_license_type)
        driver_busy == _check_driver_availability(assignment.driver_id,
                                                  assignment.assignment_date, None)
        truck_busy == _check_truck_availability(assignment.truck_id,
                                                assignment.assignment_date, None)
    IN  IF truck = None
        THEN AssignmentRaise(<<ResourceNotFoundException("Truck", assignment.truck_id)>>)
        ELSE IF driver = None
        THEN AssignmentRaise(<<ResourceNotFoundException("Driver", assignment.driver_id)>>)
        ELSE IF license # None THEN AssignmentRaise(license)
        ELSE IF driver_busy # None THEN AssignmentRaise(driver_busy)
        ELSE IF truck_busy # None THEN AssignmentRaise(truck_busy)
        ELSE AssignmentRepository_create(assignment)

\* the truck looked up under the driver's id
create_assignment_truck_by_driver_id(assignment) ==
    LET driver == DriverRepository_get_by_id(assignment.driver_id)
        truck == TruckRepository_get_by_id(assignment.driver_id)
        license == _validate_license_compatibility(driver[1].license_type,
                                                   truck[1].minimum_license_type)
        driver_busy == _check_driver_availability(assignment.driver_id,
                                                  assignment.assignment_date, None)
        truck_busy == _check_truck_availability(assignment.truck_id,
                                                assignment.assignment_date, None)
    IN  IF driver = None
        THEN AssignmentRaise(<<ResourceNotFoundException("Driver", assignment.driver_id)>>)
        ELSE IF truck = None
        THEN AssignmentRaise(<<ResourceNotFoundException("Truck", assignment.truck_id)>>)
        ELSE IF license # None THEN AssignmentRaise(license)
        ELSE IF driver_busy # None THEN AssignmentRaise(driver_busy)
        ELSE IF truck_busy # None THEN AssignmentRaise(truck_busy)
        ELSE AssignmentRepository_create(assignment)

create_assignment(assignment) ==
    LET driver == DriverRepository_get_by_id(assignment.driver_id)
        truck == TruckRepository_get_by_id(assignment.truck_id)
        license == _validate_license_compatibility(driver[1].license_type,
                                                   truck[1].minimum_license_type)
        driver_busy == _check_driver_availability(assignment.driver_id,
                                                  assignment.assignment_date, None)
        truck_busy == _check_truck_availability(assignment.truck_id,
                                                assignment.assignment_date, None)
    IN  IF driver = None
        THEN AssignmentRaise(<<ResourceNotFoundException("Driver", assignment.driver_id)>>)
        ELSE IF truck = None
        THEN AssignmentRaise(<<ResourceNotFoundException("Truck", assignment.truck_id)>>)
        ELSE IF license # None THEN AssignmentRaise(license)
        ELSE IF driver_busy # None THEN AssignmentRaise(driver_busy)
        ELSE IF truck_busy # None THEN AssignmentRaise(truck_busy)
        ELSE AssignmentRepository_create(assignment)

get_assignment(assignment_id) ==
    LET assignment == AssignmentRepository_get_by_id(assignment_id)
    IN  IF assignment = None
        THEN AssignmentRaise(<<ResourceNotFoundException("Assignment", assignment_id)>>)
        ELSE Outcome(None, assignment, assignments, assignment_next_id)

get_all_assignments ==
    Outcome(None, <<AssignmentRepository_get_all>>, assignments, assignment_next_id)

get_assignments_by_date(assignment_date) ==
    Outcome(None, <<find_by_date(assignment_date)>>, assignments, assignment_next_id)

\* the proposed driver looked up before the assignment being updated
update_assignment_driver_first(assignment_id, assignment) ==
    LET existing_assignment == AssignmentRepository_get_by_id(assignment_id)
        driver == DriverRepository_get_by_id(assignment.driver_id)
        truck == TruckRepository_get_by_id(assignment.truck_id)
        license == _validate_license_compatibility(driver[1].license_type,
                                                   truck[1].minimum_license_type)
        driver_busy == _check_driver_availability(assignment.driver_id,
                            assignment.assignment_date, <<assignment_id>>)
        truck_busy == _check_truck_availability(assignment.truck_id,
                            assignment.assignment_date, <<assignment_id>>)
    IN  IF driver = None
        THEN AssignmentRaise(<<ResourceNotFoundException("Driver", assignment.driver_id)>>)
        ELSE IF existing_assignment = None
        THEN AssignmentRaise(<<ResourceNotFoundException("Assignment", assignment_id)>>)
        ELSE IF truck = None
        THEN AssignmentRaise(<<ResourceNotFoundException("Truck", assignment.truck_id)>>)
        ELSE IF license # None THEN AssignmentRaise(license)
        ELSE IF driver_busy # None THEN AssignmentRaise(driver_busy)
        ELSE IF truck_busy # None THEN AssignmentRaise(truck_busy)
        ELSE AssignmentRepository_update(assignment_id, assignment)

\* the driver, the truck and the license looked at only when the update
\* proposes another driver or another truck
update_assignment_pair_trusted(assignment_id, assignment) ==
    LET existing_assignment == AssignmentRepository_get_by_id(assignment_id)
        driver == DriverRepository_get_by_id(assignment.driver_id)
        truck == TruckRepository_get_by_id(assignment.truck_id)
        license == _validate_license_compatibility(driver[1].license_type,
                                                   truck[1].minimum_license_type)
        driver_busy == _check_driver_availability(assignment.driver_id,
                            assignment.assignment_date, <<assignment_id>>)
        truck_busy == _check_truck_availability(assignment.truck_id,
                            assignment.assignment_date, <<assignment_id>>)
        trusted == /\ existing_assignment # None
                   /\ existing_assignment[1].driver_id = assignment.driver_id
                   /\ existing_assignment[1].truck_id = assignment.truck_id
    IN  IF existing_assignment = None
        THEN AssignmentRaise(<<ResourceNotFoundException("Assignment", assignment_id)>>)
        ELSE IF ~trusted /\ driver = None
        THEN AssignmentRaise(<<ResourceNotFoundException("Driver", assignment.driver_id)>>)
        ELSE IF ~trusted /\ truck = None
        THEN AssignmentRaise(<<ResourceNotFoundException("Truck", assignment.truck_id)>>)
        ELSE IF ~trusted /\ license # None THEN AssignmentRaise(license)
        ELSE IF driver_busy # None THEN AssignmentRaise(driver_busy)
        ELSE IF truck_busy # None THEN AssignmentRaise(truck_busy)
        ELSE AssignmentRepository_update(assignment_id, assignment)

\* neither availability check made
update_assignment_unchecked(assignment_id, assignment) ==
    LET existing_assignment == AssignmentRepository_get_by_id(assignment_id)
        driver == DriverRepository_get_by_id(assignment.driver_id)
        truck == TruckRepository_get_by_id(assignment.truck_id)
        license == _validate_license_compatibility(driver[1].license_type,
                                                   truck[1].minimum_license_type)
    IN  IF existing_assignment = None
        THEN AssignmentRaise(<<ResourceNotFoundException("Assignment", assignment_id)>>)
        ELSE IF driver = None
        THEN AssignmentRaise(<<ResourceNotFoundException("Driver", assignment.driver_id)>>)
        ELSE IF truck = None
        THEN AssignmentRaise(<<ResourceNotFoundException("Truck", assignment.truck_id)>>)
        ELSE IF license # None THEN AssignmentRaise(license)
        ELSE AssignmentRepository_update(assignment_id, assignment)

\* the truck availability check made as create makes it, excluding nothing
update_assignment_truck_no_exclude(assignment_id, assignment) ==
    LET existing_assignment == AssignmentRepository_get_by_id(assignment_id)
        driver == DriverRepository_get_by_id(assignment.driver_id)
        truck == TruckRepository_get_by_id(assignment.truck_id)
        license == _validate_license_compatibility(driver[1].license_type,
                                                   truck[1].minimum_license_type)
        driver_busy == _check_driver_availability(assignment.driver_id,
                            assignment.assignment_date, <<assignment_id>>)
        truck_busy == _check_truck_availability(assignment.truck_id,
                            assignment.assignment_date, None)
    IN  IF existing_assignment = None
        THEN AssignmentRaise(<<ResourceNotFoundException("Assignment", assignment_id)>>)
        ELSE IF driver = None
        THEN AssignmentRaise(<<ResourceNotFoundException("Driver", assignment.driver_id)>>)
        ELSE IF truck = None
        THEN AssignmentRaise(<<ResourceNotFoundException("Truck", assignment.truck_id)>>)
        ELSE IF license # None THEN AssignmentRaise(license)
        ELSE IF driver_busy # None THEN AssignmentRaise(driver_busy)
        ELSE IF truck_busy # None THEN AssignmentRaise(truck_busy)
        ELSE AssignmentRepository_update(assignment_id, assignment)

update_assignment(assignment_id, assignment) ==
    LET existing_assignment == AssignmentRepository_get_by_id(assignment_id)
        driver == DriverRepository_get_by_id(assignment.driver_id)
        truck == TruckRepository_get_by_id(assignment.truck_id)
        license == _validate_license_compatibility(driver[1].license_type,
                                                   truck[1].minimum_license_type)
        driver_busy == _check_driver_availability(assignment.driver_id,
                            assignment.assignment_date, <<assignment_id>>)
        truck_busy == _check_truck_availability(assignment.truck_id,
                            assignment.assignment_date, <<assignment_id>>)
    IN  IF existing_assignment = None
        THEN AssignmentRaise(<<ResourceNotFoundException("Assignment", assignment_id)>>)
        ELSE IF driver = None
        THEN AssignmentRaise(<<ResourceNotFoundException("Driver", assignment.driver_id)>>)
        ELSE IF truck = None
        THEN AssignmentRaise(<<ResourceNotFoundException("Truck", assignment.truck_id)>>)
        ELSE IF license # None THEN AssignmentRaise(license)
        ELSE IF driver_busy # None THEN AssignmentRaise(driver_busy)
        ELSE IF truck_busy # None THEN AssignmentRaise(truck_busy)
        ELSE AssignmentRepository_update(assignment_id, assignment)

\* the repository's False not turned into an exception
delete_assignment_silent(assignment_id) ==
    LET deleted == AssignmentRepository_delete(assignment_id)
    IN  Outcome(None, None, deleted.store, deleted.next_id)

delete_assignment(assignment_id) ==
    LET deleted == AssignmentRepository_delete(assignment_id)
    IN  IF deleted.returned = <<FALSE>>
        THEN Outcome(<<ResourceNotFoundException("Assignment", assignment_id)>>, None,
                     deleted.store, deleted.next_id)
        ELSE Outcome(None, None, deleted.store, deleted.next_id)

-----------------------------------------------------------------------------
(* routes/driver_routes.py, routes/truck_routes.py: the request body is     *)
(* checked against its schema, the model is constructed from it (its Field  *)
(* constraints first, then its validator), and the service is called.       *)

DriverRaise(exc) == Outcome(<<exc>>, None, drivers, driver_next_id)

TruckRaise(exc) == Outcome(<<exc>>, None, trucks, truck_next_id)

\* POST /api/drivers
route_create_driver(name, license_type) ==
    LET normalized == validate_name(name)
    IN  IF ~length_ok(name, NameMaxLength)
        THEN DriverRaise(RequestValidationError("name"))
        ELSE IF normalized = None
        THEN DriverRaise(PydanticValidationError(
                "Driver name cannot be empty or only whitespace"))
        ELSE create_driver(Driver(None, normalized[1], license_type))

\* PUT /api/drivers/{driver_id}
route_update_driver(driver_id, name, license_type) ==
    LET normalized == validate_name(name)
    IN  IF ~length_ok(name, NameMaxLength)
        THEN DriverRaise(RequestValidationError("name"))
        ELSE IF normalized = None
        THEN DriverRaise(PydanticValidationError(
                "Driver name cannot be empty or only whitespace"))
        ELSE update_driver(driver_id, Driver(None, normalized[1], license_type))

\* POST /api/trucks
route_create_truck(plate, minimum_license_type) ==
    LET normalized == validate_plate(plate)
    IN  IF ~length_ok(plate, PlateMaxLength)
        THEN TruckRaise(RequestValidationError("plate"))
        ELSE IF normalized = None
        THEN TruckRaise(PydanticValidationError(
                "Truck plate cannot be empty or only whitespace"))
        ELSE create_truck(Truck(None, normalized[1], minimum_license_type))

\* PUT /api/trucks/{truck_id}
route_update_truck(truck_id, plate, minimum_license_type) ==
    LET normalized == validate_plate(plate)
    IN  IF ~length_ok(plate, PlateMaxLength)
        THEN TruckRaise(RequestValidationError("plate"))
        ELSE IF normalized = None
        THEN TruckRaise(PydanticValidationError(
                "Truck plate cannot be empty or only whitespace"))
        ELSE update_truck(truck_id, Truck(None, normalized[1], minimum_license_type))

-----------------------------------------------------------------------------
(* routes/assignment_routes.py *)

\* GET /api/assignments: assignment_date is None (the default) or <<date>>
route_get_assignments(assignment_date) ==
    IF assignment_date # None
    THEN get_assignments_by_date(assignment_date[1])
    ELSE get_all_assignments

-----------------------------------------------------------------------------
(* The calls.  Each records itself in last. *)

Before(store, next_id) == [store |-> store, next_id |-> next_id]

Call(op, args, outcome, before) ==
    [op |-> op, args |-> args, raised |-> outcome.raised,
     returned |-> outcome.returned, before |-> before]

NoCall == Call("none", <<>>, Outcome(None, None, <<>>, 1), Before(<<>>, 1))

NoHistory ==
    [creates |-> [driver |-> 0, truck |-> 0, assignment |-> 0],
     deleted |-> [driver |-> {}, truck |-> {}, assignment |-> {}]]

NoneFresh == [driver |-> {}, truck |-> {}]

\* a worker thread that has not taken a request
IdleThread == [pc |-> "idle", assignment |-> <<>>, raised |-> <<>>, returned |-> <<>>]

NoThreads == [t \in ThreadIds |-> IdleThread]

NoRace == [concurrent |-> FALSE, checked_together |-> {}, overlapped |-> FALSE]

\* dependencies.py: the three singleton repositories, empty
Init ==
    /\ drivers = <<>>
    /\ driver_next_id = 1
    /\ trucks = <<>>
    /\ truck_next_id = 1
    /\ assignments = <<>>
    /\ assignment_next_id = 1
    /\ last = NoCall
    /\ lic_self = "A"
    /\ lic_required = "A"
    /\ history = NoHistory
    /\ fresh = NoneFresh
    /\ threads = NoThreads
    /\ race = NoRace

\* history after a call on a repository: created says that the call was a
\* create that returned, deleted holds the id a delete that returned removed
HistoryAfter(repository, created, deleted) ==
    [creates |-> [history.creates EXCEPT
                    ![repository] = IF created THEN @ + 1 ELSE @],
     deleted |-> [history.deleted EXCEPT ![repository] = @ \cup deleted]]

\* fresh after a call on the driver or truck repository: entity is what a
\* create that returned was given and what it returned, touched holds the id
\* an update or delete that returned was given
FreshAfter(repository, entity, touched) ==
    [fresh EXCEPT ![repository] = {f \in @ : f.id \notin touched} \cup entity]

\* no request is being answered
Idle == last.op = "none"

\* the route returns and the response is sent; the application keeps the
\* three repositories and nothing of the request
Respond ==
    /\ ~Idle
    /\ last' = NoCall
    /\ UNCHANGED <<store_vars, lic_self, lic_required, history, fresh, threads, race>>

\* deleting a driver deletes the assignments that reference it
DriverCall_cascade(op, args, outcome, follow) ==
    /\ Idle
    /\ outcome.next_id <= MaxDrivers + 1
    /\ drivers' = outcome.store
    /\ driver_next_id' = outcome.next_id
    /\ last' = Call(op, args, outcome, Before(drivers, driver_next_id))
    /\ history' = history
    /\ fresh' = fresh
    /\ assignments' = IF op = "delete_driver" /\ outcome.raised = None
                      THEN SelectSeq(assignments,
                               LAMBDA e : e[2].driver_id # args.driver_id)
                      ELSE assignments
    /\ UNCHANGED <<trucks, truck_next_id, assignment_next_id, lic_self, lic_required,
                   threads, race>>

\* follow says whether fresh is kept up to date
DriverCall(op, args, outcome, follow) ==
    LET returned == outcome.raised = None
    IN  /\ Idle
        /\ outcome.next_id <= MaxDrivers + 1
        /\ drivers' = outcome.store
        /\ driver_next_id' = outcome.next_id
        /\ last' = Call(op, args, outcome, Before(drivers, driver_next_id))
        /\ history' = HistoryAfter("driver", op = "create_driver" /\ returned,
                        IF op = "delete_driver" /\ returned
                        THEN {args.driver_id} ELSE {})
        /\ fresh' = IF ~(follow /\ returned) THEN fresh
                    ELSE IF op = "create_driver"
                    THEN FreshAfter("driver",
                            {[id |-> outcome.returned[1].id,
                              input |-> Driver(None, validate_name(args.name)[1],
                                               args.license_type)]}, {})
                    ELSE IF op \in {"update_driver", "delete_driver"}
                    THEN FreshAfter("driver", {}, {args.driver_id})
                    ELSE fresh
        /\ UNCHANGED <<trucks, truck_next_id, assignments, assignment_next_id,
                       lic_self, lic_required, threads, race>>

TruckCall(op, args, outcome, follow) ==
    LET returned == outcome.raised = None
    IN  /\ Idle
        /\ outcome.next_id <= MaxTrucks + 1
        /\ trucks' = outcome.store
        /\ truck_next_id' = outcome.next_id
        /\ last' = Call(op, args, outcome, Before(trucks, truck_next_id))
        /\ history' = HistoryAfter("truck", op = "create_truck" /\ returned,
                        IF op = "delete_truck" /\ returned
                        THEN {args.truck_id} ELSE {})
        /\ fresh' = IF ~(follow /\ returned) THEN fresh
                    ELSE IF op = "create_truck"
                    THEN FreshAfter("truck",
                            {[id |-> outcome.returned[1].id,
                              input |-> Truck(None, validate_plate(args.plate)[1],
                                              args.minimum_license_type)]}, {})
                    ELSE IF op \in {"update_truck", "delete_truck"}
                    THEN FreshAfter("truck", {}, {args.truck_id})
                    ELSE fresh
        /\ UNCHANGED <<drivers, driver_next_id, assignments, assignment_next_id,
                       lic_self, lic_required, threads, race>>

AssignmentCall(op, args, outcome) ==
    LET returned == outcome.raised = None
    IN  /\ Idle
        /\ outcome.next_id <= MaxAssignments + 1
        /\ assignments' = outcome.store
        /\ assignment_next_id' = outcome.next_id
        /\ last' = Call(op, args, outcome, Before(assignments, assignment_next_id))
        /\ history' = HistoryAfter("assignment", op = "create_assignment" /\ returned,
                        IF op = "delete_assignment" /\ returned
                        THEN {args.assignment_id} ELSE {})
        /\ UNCHANGED <<drivers, driver_next_id, trucks, truck_next_id,
                       lic_self, lic_required, fresh, threads, race>>

CreateDriverFrom(names, follow) ==
    \E name \in names, license_type \in LicenseInputs :
        DriverCall("create_driver", [name |-> name, license_type |-> license_type],
                   route_create_driver(name, license_type), follow)

GetDriverOf(follow) ==
    \E driver_id \in DriverIds :
        DriverCall("get_driver", [driver_id |-> driver_id], get_driver(driver_id), follow)

GetAllDriversOf(follow) ==
    DriverCall("get_all_drivers", <<>>, get_all_drivers, follow)

UpdateDriverFrom(names, follow) ==
    \E driver_id \in DriverIds, name \in names, license_type \in LicenseInputs :
        DriverCall("update_driver",
                   [driver_id |-> driver_id, name |-> name, license_type |-> license_type],
                   route_update_driver(driver_id, name, license_type), follow)

DeleteDriverOf(follow) ==
    \E driver_id \in DriverIds :
        DriverCall("delete_driver", [driver_id |-> driver_id],
                   delete_driver(driver_id), follow)

CreateTruckFrom(plates, follow) ==
    \E plate \in plates, minimum_license_type \in LicenseInputs :
        TruckCall("create_truck",
                  [plate |-> plate, minimum_license_type |-> minimum_license_type],
                  route_create_truck(plate, minimum_license_type), follow)

GetTruckOf(follow) ==
    \E truck_id \in TruckIds :
        TruckCall("get_truck", [truck_id |-> truck_id], get_truck(truck_id), follow)

GetAllTrucksOf(follow) ==
    TruckCall("get_all_trucks", <<>>, get_all_trucks, follow)

UpdateTruckFrom(plates, follow) ==
    \E truck_id \in TruckIds, plate \in plates, minimum_license_type \in LicenseInputs :
        TruckCall("update_truck",
                  [truck_id |-> truck_id, plate |-> plate,
                   minimum_license_type |-> minimum_license_type],
                  route_update_truck(truck_id, plate, minimum_license_type), follow)

DeleteTruckOf(follow) ==
    \E truck_id \in TruckIds :
        TruckCall("delete_truck", [truck_id |-> truck_id], delete_truck(truck_id), follow)

\* the requests of the whole application, with well-formed names and plates
CreateDriver == CreateDriverFrom(DriverNames, FALSE)

GetDriver == GetDriverOf(FALSE)

GetAllDrivers == GetAllDriversOf(FALSE)

UpdateDriver == UpdateDriverFrom(DriverNames, FALSE)

DeleteDriver == DeleteDriverOf(FALSE)

CreateTruck == CreateTruckFrom(TruckPlates, FALSE)

GetTruck == GetTruckOf(FALSE)

GetAllTrucks == GetAllTrucksOf(FALSE)

UpdateTruck == UpdateTruckFrom(TruckPlates, FALSE)

DeleteTruck == DeleteTruckOf(FALSE)

CreateAssignment ==
    \E driver_id \in DriverIds, truck_id \in TruckIds, assignment_date \in Dates :
        AssignmentCall("create_assignment",
            [driver_id |-> driver_id, truck_id |-> truck_id,
             assignment_date |-> assignment_date],
            create_assignment(Assignment(None, driver_id, truck_id, assignment_date)))

GetAssignment ==
    \E assignment_id \in AssignmentIds :
        AssignmentCall("get_assignment", [assignment_id |-> assignment_id],
                       get_assignment(assignment_id))

GetAssignments ==
    \E assignment_date \in {None} \cup {<<date>> : date \in Dates} :
        AssignmentCall("get_assignments", [assignment_date |-> assignment_date],
                       route_get_assignments(assignment_date))

UpdateAssignment ==
    \E assignment_id \in AssignmentIds, driver_id \in DriverIds, truck_id \in TruckIds,
       assignment_date \in Dates :
        AssignmentCall("update_assignment",
            [assignment_id |-> assignment_id, driver_id |-> driver_id,
             truck_id |-> truck_id, assignment_date |-> assignment_date],
            update_assignment(assignment_id,
                              Assignment(None, driver_id, truck_id, assignment_date)))

DeleteAssignment ==
    \E assignment_id \in AssignmentIds :
        AssignmentCall("delete_assignment", [assignment_id |-> assignment_id],
                       delete_assignment(assignment_id))

Next ==
    \/ CreateDriver
    \/ GetDriver
    \/ GetAllDrivers
    \/ UpdateDriver
    \/ DeleteDriver
    \/ CreateTruck
    \/ GetTruck
    \/ GetAllTrucks
    \/ UpdateTruck
    \/ DeleteTruck
    \/ CreateAssignment
    \/ GetAssignment
    \/ GetAssignments
    \/ UpdateAssignment
    \/ DeleteAssignment
    \/ Respond

Spec == Init /\ [][Next]_vars

-----------------------------------------------------------------------------
(* The driver and truck requests on their own, with every text a request   *)
(* body can carry in name and plate; fresh is kept up to date.             *)

EntityCreateDriver == CreateDriverFrom(RawDriverNames, TRUE)

EntityGetDriver == GetDriverOf(TRUE)

EntityUpdateDriver == UpdateDriverFrom(RawDriverNames, TRUE)

EntityDeleteDriver == DeleteDriverOf(TRUE)

EntityCreateTruck == CreateTruckFrom(RawTruckPlates, TRUE)

EntityGetTruck == GetTruckOf(TRUE)

EntityUpdateTruck == UpdateTruckFrom(RawTruckPlates, TRUE)

EntityDeleteTruck == DeleteTruckOf(TRUE)

EntityNext ==
    \/ EntityCreateDriver
    \/ EntityGetDriver
    \/ EntityUpdateDriver
    \/ EntityDeleteDriver
    \/ EntityCreateTruck
    \/ EntityGetTruck
    \/ EntityUpdateTruck
    \/ EntityDeleteTruck
    \/ Respond

EntitySpec == Init /\ [][EntityNext]_vars

-----------------------------------------------------------------------------
(* The LicenseType methods on their own: every receiver and every argument *)
(* of the enumeration, the repositories left empty.                        *)

LicenseInit ==
    /\ drivers = <<>>
    /\ driver_next_id = 1
    /\ trucks = <<>>
    /\ truck_next_id = 1
    /\ assignments = <<>>
    /\ assignment_next_id = 1
    /\ last = NoCall
    /\ lic_self \in LicenseType
    /\ lic_required \in LicenseType
    /\ history = NoHistory
    /\ fresh = NoneFresh
    /\ threads = NoThreads
    /\ race = NoRace

LicenseCall(op, returned) ==
    /\ last' = Call(op, [self |-> lic_self, required_license |-> lic_required],
                    Outcome(None, <<returned>>, <<>>, 1), Before(<<>>, 1))
    /\ UNCHANGED <<store_vars, lic_self, lic_required, history, fresh,
                   threads, race>>

GetLicenseHierarchy == LicenseCall("get_license_hierarchy", get_license_hierarchy)

CanOperate == LicenseCall("can_operate", can_operate(lic_self, lic_required))

GetCompatibleLicenses ==
    LicenseCall("get_compatible_licenses", get_compatible_licenses(lic_self))

LicenseNext ==
    \/ GetLicenseHierarchy
    \/ CanOperate
    \/ GetCompatibleLicenses

LicenseSpec == LicenseInit /\ [][LicenseNext]_vars

-----------------------------------------------------------------------------
(* POST /api/assignments on the threadpool.  The routes are plain def      *)
(* functions, so each request runs on a worker thread, and the worker      *)
(* threads share the singleton repositories of dependencies.py, which take *)
(* no lock.  A thread goes through create_assignment one statement at a    *)
(* time, and the statements of two threads interleave freely.              *)

InFlight(u) == threads[u].pc \notin {"idle", "done"}

\* past both availability checks, AssignmentRepository.create not begun
Checked(u) == threads[u].pc = "set_id"

\* inside AssignmentRepository.create
Persisting(u) == threads[u].pc \in {"store", "advance"}

ThreadMoves(t, pc) == threads' = [threads EXCEPT ![t].pc = pc]

ThreadRaises(t, exc) ==
    threads' = [threads EXCEPT ![t].pc = "done", ![t].raised = exc]

\* the route builds the Assignment from the request and calls the service
ThreadBegin(t) ==
    \E driver_id \in DriverIds, truck_id \in TruckIds, assignment_date \in Dates :
        /\ threads[t].pc = "idle"
        /\ threads' = [threads EXCEPT
               ![t].pc = "lookup",
               ![t].assignment = Assignment(None, driver_id, truck_id, assignment_date)]
        /\ race' = [race EXCEPT
               !.concurrent = @ \/ \E u \in ThreadIds \ {t} : InFlight(u)]
        /\ UNCHANGED <<store_vars, last, lic_self, lic_required, history, fresh>>

\* the driver, the truck and the license
ThreadLookup(t) ==
    LET assignment == threads[t].assignment
        driver == DriverRepository_get_by_id(assignment.driver_id)
        truck == TruckRepository_get_by_id(assignment.truck_id)
        license == _validate_license_compatibility(driver[1].license_type,
                                                   truck[1].minimum_license_type)
    IN  /\ threads[t].pc = "lookup"
        /\ IF driver = None
           THEN ThreadRaises(t, <<ResourceNotFoundException("Driver",
                                                           assignment.driver_id)>>)
           ELSE IF truck = None
           THEN ThreadRaises(t, <<ResourceNotFoundException("Truck",
                                                           assignment.truck_id)>>)
           ELSE IF license # None THEN ThreadRaises(t, license)
           ELSE ThreadMoves(t, "driver_check")
        /\ UNCHANGED <<store_vars, last, lic_self, lic_required, history, fresh, race>>

ThreadCheckDriver(t) ==
    LET assignment == threads[t].assignment
        driver_busy == _check_driver_availability(assignment.driver_id,
                                                  assignment.assignment_date, None)
    IN  /\ threads[t].pc = "driver_check"
        /\ IF driver_busy # None
           THEN ThreadRaises(t, driver_busy)
           ELSE ThreadMoves(t, "truck_check")
        /\ UNCHANGED <<store_vars, last, lic_self, lic_required, history, fresh, race>>

ThreadCheckTruck(t) ==
    LET assignment == threads[t].assignment
        truck_busy == _check_truck_availability(assignment.truck_id,
                                                assignment.assignment_date, None)
    IN  /\ threads[t].pc = "truck_check"
        /\ IF truck_busy # None
           THEN ThreadRaises(t, truck_busy) /\ race' = race
           ELSE /\ ThreadMoves(t, "set_id")
                /\ race' = [race EXCEPT
                       !.checked_together =
                           LET others == {u \in ThreadIds \ {t} : Checked(u)}
                           IN  IF others = {} THEN @ ELSE @ \cup others \cup {t}]
        /\ UNCHANGED <<store_vars, last, lic_self, lic_required, history, fresh>>

\* assignment.id = self._next_id
ThreadSetId(t) ==
    /\ threads[t].pc = "set_id"
    /\ threads' = [threads EXCEPT ![t].pc = "store",
                                  ![t].assignment.id = assignment_next_id]
    /\ race' = [race EXCEPT
           !.overlapped = @ \/ \E u \in ThreadIds \ {t} : Persisting(u)]
    /\ UNCHANGED <<store_vars, last, lic_self, lic_required, history, fresh>>

\* the pair checked once more by the statement that stores the assignment
ThreadStore_rechecked(t) ==
    LET assignment == threads[t].assignment
        driver_busy == _check_driver_availability(assignment.driver_id,
                                                  assignment.assignment_date, None)
        truck_busy == _check_truck_availability(assignment.truck_id,
                                                assignment.assignment_date, None)
    IN  /\ threads[t].pc = "store"
        /\ IF driver_busy # None
           THEN ThreadRaises(t, driver_busy) /\ assignments' = assignments
           ELSE IF truck_busy # None
           THEN ThreadRaises(t, truck_busy) /\ assignments' = assignments
           ELSE /\ assignments' = dict_set(assignments, assignment_next_id, assignment)
                /\ ThreadMoves(t, "advance")
        /\ UNCHANGED <<drivers, driver_next_id, trucks, truck_next_id,
                       assignment_next_id, last, lic_self, lic_required, history,
                       fresh, race>>

\* self._assignments[self._next_id] = assignment
ThreadStore(t) ==
    /\ threads[t].pc = "store"
    /\ assignments' = dict_set(assignments, assignment_next_id, threads[t].assignment)
    /\ ThreadMoves(t, "advance")
    /\ UNCHANGED <<drivers, driver_next_id, trucks, truck_next_id,
                   assignment_next_id, last, lic_self, lic_required, history,
                   fresh, race>>

\* self._next_id += 1; return assignment
ThreadAdvance(t) ==
    /\ threads[t].pc = "advance"
    /\ assignment_next_id + 1 <= MaxAssignments + 1
    /\ assignment_next_id' = assignment_next_id + 1
    /\ threads' = [threads EXCEPT ![t].pc = "done",
                                  ![t].returned = <<threads[t].assignment>>]
    /\ UNCHANGED <<drivers, driver_next_id, trucks, truck_next_id, assignments,
                   last, lic_self, lic_required, history, fresh, race>>

Begin == \E t \in ThreadIds : ThreadBegin(t)

Lookup == \E t \in ThreadIds : ThreadLookup(t)

CheckDriver == \E t \in ThreadIds : ThreadCheckDriver(t)

CheckTruck == \E t \in ThreadIds : ThreadCheckTruck(t)

SetId == \E t \in ThreadIds : ThreadSetId(t)

Store == \E t \in ThreadIds : ThreadStore(t)

Advance == \E t \in ThreadIds : ThreadAdvance(t)

ConcurrentNext ==
    \/ CreateDriver
    \/ CreateTruck
    \/ Begin
    \/ Lookup
    \/ CheckDriver
    \/ CheckTruck
    \/ SetId
    \/ Store
    \/ Advance
    \/ Respond

ConcurrentSpec == Init /\ [][ConcurrentNext]_vars

-----------------------------------------------------------------------------
(* main.py: the response to the last request.  The application registers   *)
(* one exception handler, for ApplicationException; a body its schema      *)
(* rejects and an exception of any other class are answered by the         *)
(* framework.                                                              *)

ApplicationExceptions ==
    {"ResourceNotFoundException", "ValidationException", "ConflictException"}

application_exception_handler(exc) ==
    [status_code |-> exc.status_code, content |-> [detail |-> exc.message]]

\* status_code of the route decorators
success_status(op) ==
    CASE op \in {"create_driver", "create_truck", "create_assignment"} -> 201
      [] op \in {"delete_driver", "delete_truck", "delete_assignment"} -> 204
      [] OTHER -> 200

Response ==
    IF last.raised = None
    THEN [status_code |-> success_status(last.op), content |-> last.returned]
    ELSE IF last.raised[1].type \in ApplicationExceptions
    THEN application_exception_handler(last.raised[1])
    ELSE IF last.raised[1].type = "RequestValidationError"
    THEN [status_code |-> 422, content |-> [detail |-> last.raised[1].message]]
    ELSE [status_code |-> 500, content |-> "Internal Server Error"]

-----------------------------------------------------------------------------
(* Vocabulary of the properties. *)

\* the ranks of the license categories, as the specification states them
Rank(category) ==
    CASE category = "A" -> 1
      [] category = "B" -> 2
      [] category = "C" -> 3
      [] category = "D" -> 4
      [] category = "E" -> 5

Succeeded == last.raised = None

RaisedType(type) == last.raised # None /\ last.raised[1].type = type

\* the last call raised NotFound (404) for the resource kind and id
RaisedNotFound(resource_type, resource_id) ==
    /\ RaisedType("ResourceNotFoundException")
    /\ last.raised[1].status_code = 404
    /\ last.raised[1].message[1] = resource_type
    /\ last.raised[1].message[3] = ToString(resource_id)

\* the called repository is as it was before the last call
AssignmentsUntouched ==
    /\ assignments = last.before.store
    /\ assignment_next_id = last.before.next_id

\* the stored assignments before the last call
AssignmentsBefore == dict_values(last.before.store)

StoredDriver(driver_id) == dict_get(drivers, driver_id)[1]
StoredTruck(truck_id) == dict_get(trucks, truck_id)[1]

DriverExists(driver_id) == driver_id \in dict_keys(drivers)
TruckExists(truck_id) == truck_id \in dict_keys(trucks)

\* some assignment stored before the last call holds the driver on the date
DriverBookedBefore(driver_id, assignment_date) ==
    \E i \in 1..Len(AssignmentsBefore) :
        /\ AssignmentsBefore[i].driver_id = driver_id
        /\ AssignmentsBefore[i].assignment_date = assignment_date

TruckBookedBefore(truck_id, assignment_date) ==
    \E i \in 1..Len(AssignmentsBefore) :
        /\ AssignmentsBefore[i].truck_id = truck_id
        /\ AssignmentsBefore[i].assignment_date = assignment_date

\* the last call was create_assignment and passed both existence checks
CreatePassedExistence ==
    /\ last.op = "create_assignment"
    /\ DriverExists(last.args.driver_id)
    /\ TruckExists(last.args.truck_id)

\* ... and the license check
CreatePassedLicense ==
    /\ CreatePassedExistence
    /\ Rank(StoredDriver(last.args.driver_id).license_type)
         >= Rank(StoredTruck(last.args.truck_id).minimum_license_type)

\* the last call was update_assignment on a stored assignment
UpdateOfStored ==
    /\ last.op = "update_assignment"
    /\ last.args.assignment_id \in dict_keys(last.before.store)

\* ... and it proposed the driver, truck and date the assignment already had
UpdateToItself ==
    /\ UpdateOfStored
    /\ dict_get(last.before.store, last.args.assignment_id) =
         <<Assignment(last.args.assignment_id, last.args.driver_id,
                      last.args.truck_id, last.args.assignment_date)>>

\* the proposed driver and truck are stored and the license suffices
ProposalPassesLicense ==
    /\ DriverExists(last.args.driver_id)
    /\ TruckExists(last.args.truck_id)
    /\ Rank(StoredDriver(last.args.driver_id).license_type)
         >= Rank(StoredTruck(last.args.truck_id).minimum_license_type)

\* an assignment other than the updated one held, before the last call, the
\* proposed driver or the proposed truck on the proposed date
OtherHoldsProposal ==
    \E i \in 1..Len(AssignmentsBefore) :
        /\ AssignmentsBefore[i].id # last.args.assignment_id
        /\ AssignmentsBefore[i].assignment_date = last.args.assignment_date
        /\ \/ AssignmentsBefore[i].driver_id = last.args.driver_id
           \/ AssignmentsBefore[i].truck_id = last.args.truck_id

\* a listing holds every entity of the repository once, by ascending id
ListsAll(listing, store) ==
    /\ Len(listing) = Cardinality(dict_keys(store))
    /\ \A i \in 1..Len(listing) : dict_get(store, listing[i].id) = <<listing[i]>>
    /\ \A i, j \in 1..Len(listing) : i < j => listing[i].id < listing[j].id

\* the ids of a repository's entities in the order of its listing
ListedIds(store) == [i \in 1..Len(store) |-> dict_values(store)[i].id]

\* the last call was an update or a delete of the repository that returned
UpdateReturned == last.op \in {"update_driver", "update_truck", "update_assignment"}
                    /\ Succeeded

DeleteReturned == last.op \in {"delete_driver", "delete_truck", "delete_assignment"}
                    /\ Succeeded

\* the id the last call was given
CalledId ==
    CASE last.op \in {"update_driver", "delete_driver", "get_driver"} ->
            last.args.driver_id
      [] last.op \in {"update_truck", "delete_truck", "get_truck"} ->
            last.args.truck_id
      [] last.op \in {"update_assignment", "delete_assignment", "get_assignment"} ->
            last.args.assignment_id

\* the called repository as it is now
CalledStore ==
    CASE last.op \in {"create_driver", "get_driver", "get_all_drivers",
                      "update_driver", "delete_driver"} -> drivers
      [] last.op \in {"create_truck", "get_truck", "get_all_trucks",
                      "update_truck", "delete_truck"} -> trucks
      [] OTHER -> assignments

\* the exclusions an availability check is called with: none by create,
\* the id of the updated assignment by update
Exclusions == {None} \cup {<<id>> : id \in AssignmentIds}

\* an assignment other than the excluded one holds the driver on the date
OtherHoldsDriver(driver_id, assignment_date, exclude_assignment_id) ==
    \E i \in 1..Len(assignments) :
        /\ assignments[i][2].driver_id = driver_id
        /\ assignments[i][2].assignment_date = assignment_date
        /\ <<assignments[i][2].id>> # exclude_assignment_id

OtherHoldsTruck(truck_id, assignment_date, exclude_assignment_id) ==
    \E i \in 1..Len(assignments) :
        /\ assignments[i][2].truck_id = truck_id
        /\ assignments[i][2].assignment_date = assignment_date
        /\ <<assignments[i][2].id>> # exclude_assignment_id

\* what a create_assignment made now would raise: "none" when it would
\* return, the class of the exception otherwise
CreateNow(driver_id, truck_id, assignment_date) ==
    LET outcome == create_assignment(Assignment(None, driver_id, truck_id,
                                                assignment_date))
    IN  IF outcome.raised = None THEN "none" ELSE outcome.raised[1].type

\* a create_assignment made now would pass the existence and license checks
CreateNowPassesLicense(driver_id, truck_id) ==
    /\ DriverExists(driver_id)
    /\ TruckExists(truck_id)
    /\ Rank(StoredDriver(driver_id).license_type)
         >= Rank(StoredTruck(truck_id).minimum_license_type)

\* the assignment the last call was given the id of, as stored before it
AssignmentBefore == dict_get(last.before.store, last.args.assignment_id)[1]

\* the last call was an update_assignment that returned and changed the
\* assignment's driver, truck or date
UpdateMoved ==
    /\ UpdateOfStored
    /\ Succeeded
    /\ ~UpdateToItself

\* the last call was an update_assignment of a stored assignment that
\* proposed the driver and the truck the assignment already had
UpdateKeepsPair ==
    /\ UpdateOfStored
    /\ AssignmentBefore.driver_id = last.args.driver_id
    /\ AssignmentBefore.truck_id = last.args.truck_id

\* such an update fails as the state of its driver and truck requires
StalePairRejected ==
    (UpdateKeepsPair /\ ~ProposalPassesLicense) =>
        /\ AssignmentsUntouched
        /\ dict_get(assignments, last.args.assignment_id) = <<AssignmentBefore>>
        /\ IF ~DriverExists(last.args.driver_id)
           THEN RaisedNotFound("Driver", last.args.driver_id)
           ELSE IF ~TruckExists(last.args.truck_id)
           THEN RaisedNotFound("Truck", last.args.truck_id)
           ELSE /\ RaisedType("ValidationException")
                /\ last.raised[1].status_code = 422

\* key, id field, counter and number of creates of one repository agree
RepositoryConsistent(store, next_id, creates) ==
    /\ \A i \in 1..Len(store) : store[i][2].id = store[i][1]
    /\ \A k \in dict_keys(store) : k < next_id
    /\ next_id = 1 + creates
    /\ Len(store) = Cardinality(dict_keys(store))

RepositoriesConsistent ==
    /\ RepositoryConsistent(drivers, driver_next_id, history.creates.driver)
    /\ RepositoryConsistent(trucks, truck_next_id, history.creates.truck)
    /\ RepositoryConsistent(assignments, assignment_next_id,
                            history.creates.assignment)

DriverOps == {"create_driver", "get_driver", "get_all_drivers", "update_driver",
              "delete_driver"}

TruckOps == {"create_truck", "get_truck", "get_all_trucks", "update_truck",
             "delete_truck"}

AssignmentOps == {"create_assignment", "get_assignment", "get_assignments",
                  "update_assignment", "delete_assignment"}

\* a step that updates or deletes a driver or a truck leaves the
\* assignment repository as it was
EntityWriteKeepsAssignments ==
    last'.op \in {"update_driver", "delete_driver", "update_truck", "delete_truck"} =>
        (assignments' = assignments /\ assignment_next_id' = assignment_next_id)

\* a step is a call on one repository and leaves the other two as they were
CallKeepsToItsRepository ==
    /\ last'.op \in DriverOps \cup TruckOps \cup AssignmentOps \cup {"none"}
    /\ last'.op = "none" => UNCHANGED store_vars
    /\ last'.op \in DriverOps =>
          UNCHANGED <<trucks, truck_next_id, assignments, assignment_next_id>>
    /\ last'.op \in TruckOps =>
          UNCHANGED <<drivers, driver_next_id, assignments, assignment_next_id>>
    /\ last'.op \in AssignmentOps =>
          UNCHANGED <<drivers, driver_next_id, trucks, truck_next_id>>

\* the contents of a repository: its pairs of key and entity, in no order
ContentsOf(store) == {store[i] : i \in 1..Len(store)}

\* a failed call on the assignment contents A with counter next_id
ExpectedFailure(exc, A, next_id) ==
    [raised |-> <<exc>>, returned |-> None, contents |-> A, next_id |-> next_id]

\* The outcome of create_assignment and update_assignment as a function of
\* the call (op, args), of the contents D, T, A of the three repositories
\* and of the assignment counter, and of nothing else.
ExpectedOutcome(op, args, D, T, A, next_id) ==
    LET id == IF op = "update_assignment" THEN args.assignment_id ELSE next_id
        target == {e \in A : e[1] = id}
        driver_hits == {e \in D : e[1] = args.driver_id}
        truck_hits == {e \in T : e[1] = args.truck_id}
        driver == (CHOOSE e \in driver_hits : TRUE)[2]
        truck == (CHOOSE e \in truck_hits : TRUE)[2]
        others == {e[2] : e \in A \ target}
        driver_holders == {a \in others : /\ a.driver_id = args.driver_id
                                         /\ a.assignment_date = args.assignment_date}
        truck_holders == {a \in others : /\ a.truck_id = args.truck_id
                                        /\ a.assignment_date = args.assignment_date}
        stored == Assignment(id, args.driver_id, args.truck_id, args.assignment_date)
    IN  IF op = "update_assignment" /\ target = {}
        THEN ExpectedFailure(ResourceNotFoundException("Assignment", id), A, next_id)
        ELSE IF driver_hits = {}
        THEN ExpectedFailure(ResourceNotFoundException("Driver", args.driver_id),
                             A, next_id)
        ELSE IF truck_hits = {}
        THEN ExpectedFailure(ResourceNotFoundException("Truck", args.truck_id),
                             A, next_id)
        ELSE IF Rank(driver.license_type) < Rank(truck.minimum_license_type)
        THEN ExpectedFailure(ValidationException(
                <<"Driver with license type ", driver.license_type,
                  " cannot operate ", "a truck requiring license type ",
                  truck.minimum_license_type, ". ", "Driver needs at least a ",
                  truck.minimum_license_type, " license.">>), A, next_id)
        ELSE IF driver_holders # {}
        THEN ExpectedFailure(ConflictException(
                <<"Driver ", ToString(args.driver_id), " is already assigned to truck ",
                  ToString((CHOOSE a \in driver_holders : TRUE).truck_id), " on ",
                  args.assignment_date>>), A, next_id)
        ELSE IF truck_holders # {}
        THEN ExpectedFailure(ConflictException(
                <<"Truck ", ToString(args.truck_id), " is already assigned to driver ",
                  ToString((CHOOSE a \in truck_holders : TRUE).driver_id), " on ",
                  args.assignment_date>>), A, next_id)
        ELSE [raised |-> None, returned |-> <<stored>>,
              contents |-> (A \ target) \cup {<<id, stored>>},
              next_id |-> IF op = "create_assignment" THEN next_id + 1 ELSE next_id]

\* a repository's dict is in the order of its keys, so that its contents
\* determine it
InKeyOrder(store) == \A i, j \in 1..Len(store) : i < j => store[i][1] < store[j][1]

\* the kind of error the last call surfaced
ErrorKind ==
    CASE RaisedType("ResourceNotFoundException") -> "NotFound"
      [] RaisedType("ValidationException") -> "Validation"
      [] RaisedType("RequestValidationError") -> "Validation"
      [] RaisedType("ConflictException") -> "Conflict"
      [] OTHER -> "none"

-----------------------------------------------------------------------------
(* C1: no two stored assignments share a driver id and a date, and no two  *)
(* share a truck id and a date, after any sequence of calls.               *)
C1_NoDoubleBooking ==
    \A i, j \in 1..Len(assignments) :
        i # j =>
            LET a == assignments[i][2]
                b == assignments[j][2]
            IN  /\ ~(a.driver_id = b.driver_id /\ a.assignment_date = b.assignment_date)
                /\ ~(a.truck_id = b.truck_id /\ a.assignment_date = b.assignment_date)

\* two assignments stored, the second just moved by a successful update
C1_Witness ==
    /\ Len(assignments) = 2
    /\ last.op = "update_assignment"
    /\ Succeeded
    /\ assignments # last.before.store

(* C2: create_assignment succeeds exactly when the driver exists, the      *)
(* truck exists, the driver's license can operate the truck's minimum      *)
(* license and neither is booked on the date; on success exactly one       *)
(* assignment is added, with the given driver, truck and date and the next *)
(* assignment id.                                                          *)
C2_CreateSucceedsExactlyWhenValid ==
    last.op = "create_assignment" =>
        LET a == last.args
            id == last.before.next_id
            created == Assignment(id, a.driver_id, a.truck_id, a.assignment_date)
        IN  /\ Succeeded <=>
                  /\ CreatePassedLicense
                  /\ ~DriverBookedBefore(a.driver_id, a.assignment_date)
                  /\ ~TruckBookedBefore(a.truck_id, a.assignment_date)
            /\ Succeeded =>
                  /\ assignments = Append(last.before.store, <<id, created>>)
                  /\ assignment_next_id = id + 1
                  /\ last.returned = <<created>>

\* a create that succeeded next to an assignment already stored
C2_Witness ==
    /\ last.op = "create_assignment"
    /\ Succeeded
    /\ Len(assignments) = 2

(* C3: for every pair of categories, can_operate(x, y) is true iff         *)
(* rank(x) >= rank(y), with ranks A=1 .. E=5.                              *)
C3_CanOperateIsRankOrder ==
    last.op = "can_operate" =>
        last.returned = <<Rank(lic_self) >= Rank(lic_required)>>

\* a strictly higher license asked about a lower one
C3_Witness ==
    /\ last.op = "can_operate"
    /\ lic_self = "D"
    /\ lic_required = "C"
    /\ last.returned = <<TRUE>>

(* C4: get_compatible_licenses(h) is exactly the set of categories of rank *)
(* at most rank(h), which is the set h can operate; A gives {A}, C gives   *)
(* {A,B,C} and E gives all five.                                           *)
C4_CompatibleLicensesAreLowerRanks ==
    last.op = "get_compatible_licenses" =>
        /\ last.returned = <<{y \in LicenseType : Rank(y) <= Rank(lic_self)}>>
        /\ last.returned = <<{y \in LicenseType : can_operate(lic_self, y)}>>
        /\ lic_self = "A" => last.returned = <<{"A"}>>
        /\ lic_self = "C" => last.returned = <<{"A", "B", "C"}>>
        /\ lic_self = "E" => last.returned = <<{"A", "B", "C", "D", "E"}>>

C4_Witness ==
    /\ last.op = "get_compatible_licenses"
    /\ lic_self = "C"
    /\ last.returned = <<{"A", "B", "C"}>>

(* C5: create_assignment with a driver id that is not stored raises        *)
(* NotFound for Driver with that id, whatever the truck, the date and the  *)
(* stored assignments are, and stores nothing.                             *)
C5_CreateUnknownDriverNotFound ==
    (last.op = "create_assignment" /\ ~DriverExists(last.args.driver_id)) =>
        /\ RaisedNotFound("Driver", last.args.driver_id)
        /\ AssignmentsUntouched

\* the driver is gone, the truck is unknown too, and an assignment of the
\* deleted driver on that date is still stored
C5_Witness ==
    /\ last.op = "create_assignment"
    /\ ~DriverExists(last.args.driver_id)
    /\ ~TruckExists(last.args.truck_id)
    /\ DriverBookedBefore(last.args.driver_id, last.args.assignment_date)
    /\ RaisedNotFound("Driver", last.args.driver_id)

(* C6: create_assignment with a stored driver and a truck id that is not   *)
(* stored raises NotFound for Truck with that id, before any license or    *)
(* availability check, and stores nothing.                                 *)
C6_CreateUnknownTruckNotFound ==
    (/\ last.op = "create_assignment"
     /\ DriverExists(last.args.driver_id)
     /\ ~TruckExists(last.args.truck_id)) =>
        /\ RaisedNotFound("Truck", last.args.truck_id)
        /\ AssignmentsUntouched

\* the driver and the deleted truck are both booked on the date
C6_Witness ==
    /\ last.op = "create_assignment"
    /\ DriverExists(last.args.driver_id)
    /\ ~TruckExists(last.args.truck_id)
    /\ DriverBookedBefore(last.args.driver_id, last.args.assignment_date)
    /\ TruckBookedBefore(last.args.truck_id, last.args.assignment_date)
    /\ RaisedNotFound("Truck", last.args.truck_id)

(* C7: create_assignment with a stored driver and truck where the driver's *)
(* rank is below the truck's required rank raises a Validation error (422) *)
(* naming the driver's category and the required category, also when the   *)
(* driver or truck is booked on the date, and stores nothing.              *)
C7_CreateIncompatibleLicenseValidation ==
    (CreatePassedExistence /\ ~CreatePassedLicense) =>
        LET held == StoredDriver(last.args.driver_id).license_type
            required == StoredTruck(last.args.truck_id).minimum_license_type
        IN  /\ RaisedType("ValidationException")
            /\ last.raised[1].status_code = 422
            /\ last.raised[1].message[1] = "Driver with license type "
            /\ last.raised[1].message[2] = held
            /\ last.raised[1].message[4] = "a truck requiring license type "
            /\ last.raised[1].message[5] = required
            /\ AssignmentsUntouched

\* license B against a truck requiring D, both booked on the date
C7_Witness ==
    /\ CreatePassedExistence
    /\ StoredDriver(last.args.driver_id).license_type = "B"
    /\ StoredTruck(last.args.truck_id).minimum_license_type = "D"
    /\ DriverBookedBefore(last.args.driver_id, last.args.assignment_date)
    /\ TruckBookedBefore(last.args.truck_id, last.args.assignment_date)
    /\ RaisedType("ValidationException")

(* C8: create_assignment that passes the existence and license checks but  *)
(* whose driver has a stored assignment on the date raises Conflict (409)  *)
(* naming the truck of that assignment, also when the truck is booked too, *)
(* and stores nothing.                                                     *)
C8_CreateDriverBookedConflict ==
    (/\ CreatePassedLicense
     /\ DriverBookedBefore(last.args.driver_id, last.args.assignment_date)) =>
        /\ RaisedType("ConflictException")
        /\ last.raised[1].status_code = 409
        /\ last.raised[1].message[1] = "Driver "
        /\ last.raised[1].message[2] = ToString(last.args.driver_id)
        /\ \A i \in 1..Len(AssignmentsBefore) :
              (/\ AssignmentsBefore[i].driver_id = last.args.driver_id
               /\ AssignmentsBefore[i].assignment_date = last.args.assignment_date)
              => last.raised[1].message[4] = ToString(AssignmentsBefore[i].truck_id)
        /\ AssignmentsUntouched

\* the driver is booked with another truck and the truck by another driver
C8_Witness ==
    /\ CreatePassedLicense
    /\ DriverBookedBefore(last.args.driver_id, last.args.assignment_date)
    /\ TruckBookedBefore(last.args.truck_id, last.args.assignment_date)
    /\ RaisedType("ConflictException")
    /\ last.raised[1].message[4] # ToString(last.args.truck_id)

(* C9: create_assignment that passes the existence, license and driver     *)
(* availability checks but whose truck has a stored assignment on the date *)
(* raises Conflict (409) naming the driver of that assignment, and stores  *)
(* nothing.                                                                *)
C9_CreateTruckBookedConflict ==
    (/\ CreatePassedLicense
     /\ ~DriverBookedBefore(last.args.driver_id, last.args.assignment_date)
     /\ TruckBookedBefore(last.args.truck_id, last.args.assignment_date)) =>
        /\ RaisedType("ConflictException")
        /\ last.raised[1].status_code = 409
        /\ last.raised[1].message[1] = "Truck "
        /\ last.raised[1].message[2] = ToString(last.args.truck_id)
        /\ \A i \in 1..Len(AssignmentsBefore) :
              (/\ AssignmentsBefore[i].truck_id = last.args.truck_id
               /\ AssignmentsBefore[i].assignment_date = last.args.assignment_date)
              => last.raised[1].message[4] = ToString(AssignmentsBefore[i].driver_id)
        /\ AssignmentsUntouched

\* the truck is booked on the date by the other driver; the proposed driver
\* is booked on the other date only
C9_Witness ==
    /\ CreatePassedLicense
    /\ ~DriverBookedBefore(last.args.driver_id, last.args.assignment_date)
    /\ TruckBookedBefore(last.args.truck_id, last.args.assignment_date)
    /\ \E d \in Dates : DriverBookedBefore(last.args.driver_id, d)
    /\ RaisedType("ConflictException")
    /\ last.raised[1].message[4] # ToString(last.args.driver_id)

(* C10: assignments on other dates never cause a conflict: when every      *)
(* stored assignment of the driver or of the truck is on a date other than *)
(* d, create_assignment for them on d is not rejected with Conflict.       *)
C10_OtherDatesNeverConflict ==
    (/\ last.op = "create_assignment"
     /\ ~DriverBookedBefore(last.args.driver_id, last.args.assignment_date)
     /\ ~TruckBookedBefore(last.args.truck_id, last.args.assignment_date)) =>
        ~RaisedType("ConflictException")

\* the same driver and truck, assigned to each other on one date, are
\* assigned to each other on a second
C10_Witness ==
    /\ last.op = "create_assignment"
    /\ Succeeded
    /\ \E i \in 1..Len(AssignmentsBefore) :
          /\ AssignmentsBefore[i].driver_id = last.args.driver_id
          /\ AssignmentsBefore[i].truck_id = last.args.truck_id
          /\ AssignmentsBefore[i].assignment_date # last.args.assignment_date

(* C11, as the specification states it: updating a stored assignment to    *)
(* its own driver, truck and date succeeds in every reachable state and    *)
(* leaves the assignment store unchanged.                                  *)
C11_Original_SelfUpdateAlwaysSucceeds ==
    UpdateToItself => (Succeeded /\ AssignmentsUntouched)

(* C11: updating a stored assignment to its own driver, truck and date     *)
(* leaves the assignment store unchanged; it succeeds, returning the       *)
(* assignment, whenever the driver and the truck are still stored and the  *)
(* driver's license still covers the truck's minimum license, and fails    *)
(* with NotFound (404) for the missing driver or truck or with Validation  *)
(* (422) otherwise, never with Conflict.                                   *)
C11_SelfUpdateSucceedsWhileStillValid ==
    UpdateToItself =>
        /\ AssignmentsUntouched
        /\ Succeeded <=> ProposalPassesLicense
        /\ Succeeded =>
              last.returned = dict_get(assignments, last.args.assignment_id)
        /\ ~DriverExists(last.args.driver_id) =>
              RaisedNotFound("Driver", last.args.driver_id)
        /\ (DriverExists(last.args.driver_id) /\ ~TruckExists(last.args.truck_id)) =>
              RaisedNotFound("Truck", last.args.truck_id)
        /\ (DriverExists(last.args.driver_id) /\ TruckExists(last.args.truck_id)
              /\ ~ProposalPassesLicense) =>
              (RaisedType("ValidationException") /\ last.raised[1].status_code = 422)

\* a self-update that succeeded next to another stored assignment
C11_Witness ==
    /\ UpdateToItself
    /\ Succeeded
    /\ Len(assignments) = 2

(* C12: update_assignment on an assignment id that is not stored raises    *)
(* NotFound for Assignment with that id, whatever the proposed driver,     *)
(* truck and date are, and leaves the assignment store and its counter     *)
(* unchanged.                                                              *)
C12_UpdateUnknownAssignmentNotFound ==
    (last.op = "update_assignment" /\ ~UpdateOfStored) =>
        /\ RaisedNotFound("Assignment", last.args.assignment_id)
        /\ AssignmentsUntouched

\* the assignment was deleted, the proposed driver and truck are gone too
\* and another assignment still holds that driver on the date
C12_Witness ==
    /\ last.op = "update_assignment"
    /\ last.args.assignment_id \in history.deleted.assignment
    /\ ~DriverExists(last.args.driver_id)
    /\ ~TruckExists(last.args.truck_id)
    /\ DriverBookedBefore(last.args.driver_id, last.args.assignment_date)
    /\ RaisedNotFound("Assignment", last.args.assignment_id)

(* C13: an update_assignment of a stored assignment whose proposed driver  *)
(* and truck are stored and license-compatible raises Conflict (409)       *)
(* exactly when another assignment holds the proposed driver or truck on   *)
(* the proposed date, and succeeds otherwise; on Conflict the store is     *)
(* unchanged, on success the assignment holds exactly the proposed values  *)
(* under its id, at its place, and nothing else changes.                   *)
C13_UpdateConflictsExactlyWithOthers ==
    (UpdateOfStored /\ ProposalPassesLicense) =>
        LET a == last.args
            updated == Assignment(a.assignment_id, a.driver_id, a.truck_id,
                                  a.assignment_date)
        IN  /\ RaisedType("ConflictException") <=> OtherHoldsProposal
            /\ Succeeded <=> ~OtherHoldsProposal
            /\ RaisedType("ConflictException") =>
                  /\ last.raised[1].status_code = 409
                  /\ AssignmentsUntouched
            /\ Succeeded =>
                  /\ assignments = dict_set(last.before.store, a.assignment_id, updated)
                  /\ dict_get(assignments, a.assignment_id) = <<updated>>
                  /\ dict_keys(assignments) = dict_keys(last.before.store)
                  /\ assignment_next_id = last.before.next_id
                  /\ last.returned = <<updated>>

\* the update was refused because the other assignment holds the truck
C13_Witness ==
    /\ UpdateOfStored
    /\ ProposalPassesLicense
    /\ RaisedType("ConflictException")
    /\ ~DriverBookedBefore(last.args.driver_id, last.args.assignment_date)
    /\ dict_get(assignments, last.args.assignment_id)[1].truck_id # last.args.truck_id

(* C14: in each repository the k-th create that returns gives id k,        *)
(* whatever updates and deletes were made in between, and the counter is   *)
(* k + 1 afterwards; an id that was deleted is never stored again.         *)
C14_IdsSequentialNeverReused ==
    /\ (last.op = "create_driver" /\ Succeeded) =>
          /\ last.returned[1].id = history.creates.driver
          /\ driver_next_id = history.creates.driver + 1
    /\ (last.op = "create_truck" /\ Succeeded) =>
          /\ last.returned[1].id = history.creates.truck
          /\ truck_next_id = history.creates.truck + 1
    /\ (last.op = "create_assignment" /\ Succeeded) =>
          /\ last.returned[1].id = history.creates.assignment
          /\ assignment_next_id = history.creates.assignment + 1
    /\ history.deleted.driver \cap dict_keys(drivers) = {}
    /\ history.deleted.truck \cap dict_keys(trucks) = {}
    /\ history.deleted.assignment \cap dict_keys(assignments) = {}

\* the second driver created after the first was deleted: it gets id 2
C14_Witness ==
    /\ last.op = "create_driver"
    /\ Succeeded
    /\ history.deleted.driver = {1}
    /\ last.returned[1].id = 2
    /\ dict_keys(drivers) = {2}

(* C15: in each repository, once an id was deleted, a get and a delete of  *)
(* that id raise NotFound (404) for that resource and id, and leave the    *)
(* repository and its counter unchanged.                                   *)
C15_DeletedIdNotFound ==
    [][/\ \A id \in history.deleted.driver :
            (last'.op \in {"get_driver", "delete_driver"}
               /\ last'.args.driver_id = id) =>
                /\ last'.raised = <<ResourceNotFoundException("Driver", id)>>
                /\ last'.raised[1].status_code = 404
                /\ drivers' = drivers
                /\ driver_next_id' = driver_next_id
       /\ \A id \in history.deleted.truck :
            (last'.op \in {"get_truck", "delete_truck"}
               /\ last'.args.truck_id = id) =>
                /\ last'.raised = <<ResourceNotFoundException("Truck", id)>>
                /\ last'.raised[1].status_code = 404
                /\ trucks' = trucks
                /\ truck_next_id' = truck_next_id
       /\ \A id \in history.deleted.assignment :
            (last'.op \in {"get_assignment", "delete_assignment"}
               /\ last'.args.assignment_id = id) =>
                /\ last'.raised = <<ResourceNotFoundException("Assignment", id)>>
                /\ last'.raised[1].status_code = 404
                /\ assignments' = assignments
                /\ assignment_next_id' = assignment_next_id
      ]_vars

\* the second delete of an assignment, another one still stored
C15_Witness ==
    /\ last.op = "delete_assignment"
    /\ last.args.assignment_id \in history.deleted.assignment
    /\ RaisedNotFound("Assignment", last.args.assignment_id)
    /\ Len(assignments) = 1
    /\ AssignmentsUntouched

(* C17: in each repository an update of a stored id replaces every field   *)
(* of the entity with the given ones, under the same id and at the same    *)
(* place, and leaves the other entities, the stored ids and the counter as *)
(* they were; an update of an id that is not stored raises NotFound (404)  *)
(* and leaves the repository and its counter unchanged.  An assignment     *)
(* update replaces only when its checks pass.                              *)
C17_UpdateReplacesInPlace ==
    /\ last.op = "update_driver" =>
          LET id == last.args.driver_id
              replaced == Driver(id, validate_name(last.args.name)[1],
                                 last.args.license_type)
          IN  IF id \in dict_keys(last.before.store)
              THEN /\ Succeeded
                   /\ last.returned = <<replaced>>
                   /\ dict_get(drivers, id) = <<replaced>>
                   /\ dict_keys(drivers) = dict_keys(last.before.store)
                   /\ \A k \in dict_keys(drivers) \ {id} :
                          dict_get(drivers, k) = dict_get(last.before.store, k)
                   /\ Len(drivers) = Len(last.before.store)
                   /\ driver_next_id = last.before.next_id
              ELSE /\ RaisedNotFound("Driver", id)
                   /\ drivers = last.before.store
                   /\ driver_next_id = last.before.next_id
    /\ last.op = "update_truck" =>
          LET id == last.args.truck_id
              replaced == Truck(id, validate_plate(last.args.plate)[1],
                                last.args.minimum_license_type)
          IN  IF id \in dict_keys(last.before.store)
              THEN /\ Succeeded
                   /\ last.returned = <<replaced>>
                   /\ dict_get(trucks, id) = <<replaced>>
                   /\ dict_keys(trucks) = dict_keys(last.before.store)
                   /\ \A k \in dict_keys(trucks) \ {id} :
                          dict_get(trucks, k) = dict_get(last.before.store, k)
                   /\ Len(trucks) = Len(last.before.store)
                   /\ truck_next_id = last.before.next_id
              ELSE /\ RaisedNotFound("Truck", id)
                   /\ trucks = last.before.store
                   /\ truck_next_id = last.before.next_id
    /\ last.op = "update_assignment" =>
          LET id == last.args.assignment_id
              replaced == Assignment(id, last.args.driver_id, last.args.truck_id,
                                     last.args.assignment_date)
          IN  IF id \in dict_keys(last.before.store)
              THEN /\ Succeeded =>
                        /\ last.returned = <<replaced>>
                        /\ dict_get(assignments, id) = <<replaced>>
                        /\ \A k \in dict_keys(assignments) \ {id} :
                               dict_get(assignments, k) = dict_get(last.before.store, k)
                   /\ ~Succeeded => assignments = last.before.store
                   /\ dict_keys(assignments) = dict_keys(last.before.store)
                   /\ Len(assignments) = Len(last.before.store)
                   /\ assignment_next_id = last.before.next_id
              ELSE /\ RaisedNotFound("Assignment", id)
                   /\ assignments = last.before.store
                   /\ assignment_next_id = last.before.next_id

\* the first of two stored drivers got another license, the second stayed
C17_Witness ==
    /\ last.op = "update_driver"
    /\ Succeeded
    /\ Len(drivers) = 2
    /\ last.args.driver_id = drivers[1][1]
    /\ drivers[1][2] # last.before.store[1][2]
    /\ drivers[2] = last.before.store[2]

(* C18: a delete_driver or delete_truck leaves the assignment repository   *)
(* and its counter unchanged: get_assignment of every id and               *)
(* get_all_assignments return after it what they returned before, so an    *)
(* assignment that references the deleted id is still stored under its id  *)
(* with its driver id, truck id and date.                                  *)
C18_DeleteLeavesAssignments ==
    [][last'.op \in {"delete_driver", "delete_truck"} =>
          /\ assignments' = assignments
          /\ assignment_next_id' = assignment_next_id
          /\ \A id \in AssignmentIds : get_assignment(id)' = get_assignment(id)
          /\ get_all_assignments' = get_all_assignments
          /\ \A date \in Dates :
                get_assignments_by_date(date)' = get_assignments_by_date(date)
      ]_vars

\* the driver of a stored assignment has just been deleted
C18_Witness ==
    /\ last.op = "delete_driver"
    /\ Succeeded
    /\ \E i \in 1..Len(assignments) :
          assignments[i][2].driver_id = last.args.driver_id

(* C16: a get of a driver or truck that was created, and neither updated   *)
(* nor deleted since, returns the entity the create was given, with the id *)
(* the create returned; the entity is the constructed one, its name or     *)
(* plate normalized.                                                       *)
C16_CreatedEntityFetchedAsCreated ==
    /\ \A f \in fresh.driver :
          /\ get_driver(f.id).raised = None
          /\ get_driver(f.id).returned =
                <<Driver(f.id, f.input.name, f.input.license_type)>>
          /\ (last.op = "get_driver" /\ last.args.driver_id = f.id) =>
                last.returned = <<Driver(f.id, f.input.name, f.input.license_type)>>
    /\ \A f \in fresh.truck :
          /\ get_truck(f.id).raised = None
          /\ get_truck(f.id).returned =
                <<Truck(f.id, f.input.plate, f.input.minimum_license_type)>>
          /\ (last.op = "get_truck" /\ last.args.truck_id = f.id) =>
                last.returned =
                    <<Truck(f.id, f.input.plate, f.input.minimum_license_type)>>

\* the second truck, created from a plate that had to be normalized, is
\* fetched after the first one was updated
C16_Witness ==
    /\ last.op = "get_truck"
    /\ last.args.truck_id = 2
    /\ Succeeded
    /\ fresh.truck = {[id |-> 2, input |-> Truck(None, <<"A", "B", " ", "1">>, "D")]}
    /\ dict_keys(trucks) = {1, 2}
    /\ StoredTruck(1).minimum_license_type = "B"

(* C19: a create_driver whose name is empty after trimming, and a          *)
(* create_truck whose plate is empty after trimming, is answered with      *)
(* status 422 and a detail, and leaves the repository and its counter      *)
(* unchanged.                                                              *)
C19_BlankNameOrPlateRejected422 ==
    /\ (last.op = "create_driver" /\ strip(last.args.name) = <<>>) =>
          /\ Response.status_code = 422
          /\ drivers = last.before.store
          /\ driver_next_id = last.before.next_id
    /\ (last.op = "create_truck" /\ strip(last.args.plate) = <<>>) =>
          /\ Response.status_code = 422
          /\ trucks = last.before.store
          /\ truck_next_id = last.before.next_id

(* C20: every call that fails surfaces one of NotFound, Validation and     *)
(* Conflict, answered with 404, 422 and 409 respectively, and the response *)
(* carries the error's message under the key detail.                       *)
C20_FailuresAreOneOfThreeKinds ==
    last.raised # None =>
        /\ ErrorKind \in {"NotFound", "Validation", "Conflict"}
        /\ Response.status_code =
              (CASE ErrorKind = "NotFound" -> 404
                 [] ErrorKind = "Validation" -> 422
                 [] ErrorKind = "Conflict" -> 409)
        /\ Response.content = [detail |-> last.raised[1].message]

(* C23: get_all of each repository returns every stored entity exactly     *)
(* once, by ascending id, which is the order of insertion; an update that  *)
(* returns leaves every entity at its place in the listing, and a delete   *)
(* that returns takes out the deleted entity alone.                        *)
C23_ListingInInsertionOrder ==
    /\ ListsAll(get_all_drivers.returned[1], drivers)
    /\ ListsAll(get_all_trucks.returned[1], trucks)
    /\ ListsAll(get_all_assignments.returned[1], assignments)
    /\ last.op = "get_all_drivers" =>
          (Succeeded /\ ListsAll(last.returned[1], drivers))
    /\ last.op = "get_all_trucks" =>
          (Succeeded /\ ListsAll(last.returned[1], trucks))
    /\ (last.op = "get_assignments" /\ last.args.assignment_date = None) =>
          (Succeeded /\ ListsAll(last.returned[1], assignments))
    /\ UpdateReturned => ListedIds(CalledStore) = ListedIds(last.before.store)
    /\ DeleteReturned =>
          /\ ListedIds(CalledStore) =
                SelectSeq(ListedIds(last.before.store), LAMBDA id : id # CalledId)
          /\ \A id \in dict_keys(CalledStore) :
                dict_get(CalledStore, id) = dict_get(last.before.store, id)
          /\ dict_keys(CalledStore) = dict_keys(last.before.store) \ {CalledId}

\* two drivers with different licenses are listed, id 1 before id 2
C23_Witness ==
    /\ last.op = "get_all_drivers"
    /\ Len(last.returned[1]) = 2
    /\ last.returned[1][1].id = 1
    /\ last.returned[1][2].id = 2
    /\ last.returned[1][1].license_type # last.returned[1][2].license_type

(* C24: get_assignments with a date returns exactly the stored assignments *)
(* of that date, each once and in the order of the full listing; without a *)
(* date it returns all stored assignments.                                 *)
C24_DateFilterIsExact ==
    last.op = "get_assignments" =>
        LET stored == {assignments[i][2] : i \in 1..Len(assignments)}
            listing == last.returned[1]
            listed == {listing[i] : i \in 1..Len(listing)}
        IN  /\ Succeeded
            /\ Len(listing) = Cardinality(listed)
            /\ \A i, j \in 1..Len(listing) : i < j => listing[i].id < listing[j].id
            /\ last.args.assignment_date = None => listed = stored
            /\ last.args.assignment_date # None =>
                  listed = {a \in stored :
                              a.assignment_date = last.args.assignment_date[1]}

\* one of two stored assignments is on the date asked for
C24_Witness ==
    /\ last.op = "get_assignments"
    /\ last.args.assignment_date # None
    /\ Len(assignments) = 2
    /\ Len(last.returned[1]) = 1
    /\ last.returned[1][1].assignment_date = last.args.assignment_date[1]

(* C25: in every reachable state, for every driver or truck, date and      *)
(* excluded id (none for create, the updated id for update), the           *)
(* availability check raises Conflict exactly when an assignment other     *)
(* than the excluded one holds the driver, or the truck, on the date.      *)
C25_FirstMatchCheckIsOtherHolds ==
    \A assignment_date \in Dates, exclude_assignment_id \in Exclusions :
        /\ \A driver_id \in DriverIds :
              (_check_driver_availability(driver_id, assignment_date,
                                          exclude_assignment_id) # None)
                 <=> OtherHoldsDriver(driver_id, assignment_date, exclude_assignment_id)
        /\ \A truck_id \in TruckIds :
              (_check_truck_availability(truck_id, assignment_date,
                                         exclude_assignment_id) # None)
                 <=> OtherHoldsTruck(truck_id, assignment_date, exclude_assignment_id)

\* of two stored assignments the second was updated to itself: the first
\* match of its driver on its date is the excluded assignment
C25_Witness ==
    /\ UpdateToItself
    /\ Succeeded
    /\ Len(assignments) = 2
    /\ last.args.assignment_id = assignments[2][1]
    /\ find_by_driver_and_date(last.args.driver_id, last.args.assignment_date)
          = <<assignments[2][2]>>
    /\ _check_driver_availability(last.args.driver_id, last.args.assignment_date,
                                  None) # None

(* C26: a create_assignment, update_assignment or delete_assignment that   *)
(* raises raises NotFound, Validation or Conflict and leaves the three     *)
(* repositories and the three counters as they were, so the next id of the *)
(* assignment repository is the one it was before the call.                *)
C26_FailedAssignmentCallChangesNothing ==
    [][(/\ last'.op \in {"create_assignment", "update_assignment",
                          "delete_assignment"}
        /\ last'.raised # None) =>
          /\ last'.raised[1].type \in ApplicationExceptions
          /\ UNCHANGED store_vars
          /\ history' = history
      ]_vars

\* a create refused with Conflict after one assignment was created: the
\* counter still stands at 2
C26_Witness ==
    /\ last.op = "create_assignment"
    /\ RaisedType("ConflictException")
    /\ history.creates.assignment = 1
    /\ assignment_next_id = 2
    /\ create_assignment(Assignment(None, 2, 2, "2025-11-11")).returned # None
    /\ create_assignment(Assignment(None, 2, 2, "2025-11-11")).returned[1].id = 2

(* C27: right after a delete_assignment that returned, no stored           *)
(* assignment holds the deleted assignment's driver or its truck on its    *)
(* date, and a create_assignment for that driver or that truck on that     *)
(* date returns exactly when its driver and truck are stored and           *)
(* license-compatible and no remaining assignment holds either on the      *)
(* date; it raises Conflict only for a remaining assignment.               *)
C27_DeleteReleasesSlots ==
    (last.op = "delete_assignment" /\ Succeeded) =>
        LET old == AssignmentBefore
            date == old.assignment_date
        IN  /\ _check_driver_availability(old.driver_id, date, None) = None
            /\ _check_truck_availability(old.truck_id, date, None) = None
            /\ CreateNow(old.driver_id, old.truck_id, date) # "ConflictException"
            /\ \A driver_id \in DriverIds, truck_id \in TruckIds :
                  (driver_id = old.driver_id \/ truck_id = old.truck_id) =>
                      /\ CreateNow(driver_id, truck_id, date) = "none" <=>
                            /\ CreateNowPassesLicense(driver_id, truck_id)
                            /\ ~OtherHoldsDriver(driver_id, date, None)
                            /\ ~OtherHoldsTruck(truck_id, date, None)
                      /\ CreateNow(driver_id, truck_id, date) = "ConflictException" =>
                            \/ OtherHoldsDriver(driver_id, date, None)
                            \/ OtherHoldsTruck(truck_id, date, None)

\* one of two assignments of the same date was deleted, and its driver
\* and truck can be assigned again on that date
C27_Witness ==
    /\ last.op = "delete_assignment"
    /\ Succeeded
    /\ Len(assignments) = 1
    /\ assignments[1][2].assignment_date = AssignmentBefore.assignment_date
    /\ CreateNow(AssignmentBefore.driver_id, AssignmentBefore.truck_id,
                 AssignmentBefore.assignment_date) = "none"

C29_ChecksOnlyAtCreateAndUpdate ==
    /\ []StalePairRejected
    /\ [][EntityWriteKeepsAssignments]_vars

\* the assignment's driver has a lower license than when it was assigned,
\* and moving the assignment to the other date is refused
C29_Witness ==
    /\ UpdateKeepsPair
    /\ DriverExists(last.args.driver_id)
    /\ TruckExists(last.args.truck_id)
    /\ AssignmentBefore.assignment_date # last.args.assignment_date
    /\ RaisedType("ValidationException")
    /\ dict_get(assignments, last.args.assignment_id) = <<AssignmentBefore>>

(* C30: in every reachable state and for each repository, every stored     *)
(* entity's id is the key it is stored under, every stored key is below    *)
(* the counter, and the counter is 1 plus the number of creates that       *)
(* returned; a call on one repository changes neither the dict nor the     *)
(* counter of another.                                                     *)
C30_RepositoriesConsistentAndSeparate ==
    /\ []RepositoriesConsistent
    /\ [][CallKeepsToItsRepository]_vars

\* the first driver and the first assignment are gone, the second of each
\* is stored; the truck repository has made one truck only
C30_Witness ==
    /\ dict_keys(drivers) = {2}
    /\ dict_keys(assignments) = {2}
    /\ driver_next_id = 3
    /\ assignment_next_id = 3
    /\ truck_next_id = 2
    /\ last.op = "delete_driver"
    /\ Succeeded

(* C21: what a create_assignment or update_assignment raises or returns,   *)
(* and the assignment repository it leaves, is the value of one function   *)
(* of the call's inputs, of the contents of the three repositories (their  *)
(* pairs of id and entity, whatever calls produced them) and of the        *)
(* assignment counter; the dicts are in key order, so equal contents are   *)
(* equal repositories.                                                     *)
C21_OutcomeIsFunctionOfStores ==
    /\ InKeyOrder(drivers) /\ InKeyOrder(trucks) /\ InKeyOrder(assignments)
    /\ last.op \in {"create_assignment", "update_assignment"} =>
          LET expected == ExpectedOutcome(last.op, last.args, ContentsOf(drivers),
                              ContentsOf(trucks), ContentsOf(last.before.store),
                              last.before.next_id)
          IN  /\ last.raised = expected.raised
              /\ last.returned = expected.returned
              /\ ContentsOf(assignments) = expected.contents
              /\ assignment_next_id = expected.next_id

\* a create refused with Conflict in a state that a delete of an
\* assignment and a delete of a driver led to
C21_Witness ==
    /\ last.op = "create_assignment"
    /\ RaisedType("ConflictException")
    /\ history.deleted.assignment # {}
    /\ history.deleted.driver # {}
    /\ Len(assignments) = 1

-----------------------------------------------------------------------------
(* Two create_assignment requests on two worker threads. *)

Done(t) == threads[t].pc = "done"

\* the two requests ask for the same driver or the same truck on the same date
SameSlot(t, u) ==
    LET a == threads[t].assignment
        b == threads[u].assignment
    IN  /\ a.assignment_date = b.assignment_date
        /\ a.driver_id = b.driver_id \/ a.truck_id = b.truck_id

\* the assignment the thread returned is stored under its id
StoredAsReturned(t) ==
    \E i \in 1..Len(assignments) :
        /\ assignments[i][1] = threads[t].returned[1].id
        /\ assignments[i][2] = threads[t].returned[1]

(* C22: no double booking is guaranteed only while the create_assignment   *)
(* calls run one after the other.  While no call began before another      *)
(* ended, no two stored assignments share a driver and a date or a truck   *)
(* and a date.  When two calls run on two threads and both pass their      *)
(* availability checks before either enters AssignmentRepository.create,   *)
(* both return an assignment and neither raises; and when the runs of      *)
(* AssignmentRepository.create then follow one another, both assignments   *)
(* are stored, so that two requests for the same driver or the same truck  *)
(* on the same date leave the repository double-booked.                    *)
C22_ConcurrentCreatesDoubleBook ==
    /\ ~race.concurrent => C1_NoDoubleBooking
    /\ \A t \in race.checked_together :
          Done(t) => threads[t].raised = None /\ threads[t].returned # None
    /\ ~race.overlapped =>
          \A t, u \in race.checked_together :
              (t # u /\ Done(t) /\ Done(u)) =>
                  /\ StoredAsReturned(t)
                  /\ StoredAsReturned(u)
                  /\ threads[t].returned[1].id # threads[u].returned[1].id
                  /\ SameSlot(t, u) => ~C1_NoDoubleBooking

\* one driver booked on two trucks on one date by two requests that both
\* passed their checks before either was stored
C22_Witness ==
    /\ Done(1)
    /\ Done(2)
    /\ race.checked_together = {1, 2}
    /\ ~race.overlapped
    /\ threads[1].assignment.driver_id = threads[2].assignment.driver_id
    /\ threads[1].assignment.truck_id # threads[2].assignment.truck_id
    /\ threads[1].assignment.assignment_date = threads[2].assignment.assignment_date
    /\ Len(assignments) = 2
    /\ ~C1_NoDoubleBooking

====
